---- MODULE Spec2Model ----
(***************************************************************************)
(* Model of the clinic console client (waas-frontend): the session store,  *)
(* the shared HTTP client and its interceptors, the route guard, the       *)
(* booking modal and the onboarding wizard's draft persistence.            *)
(*                                                                         *)
(* Strings whose characters matter (tokens, headers) are sequences of      *)
(* one-letter strings; opaque strings (messages, ids) are TLA+ strings.    *)
(***************************************************************************)
EXTENDS Integers, Sequences, FiniteSets, TLC

(***************************************************************************)
(* JavaScript values                                                       *)
(***************************************************************************)

\* JS null for a string-valued slot: a one-element sequence whose element is
\* no character, so it differs from every string (the empty string included).
Null == <<"<null>">>

\* The value JSON.parse("null") and a failed parseJwt both give.
JsNull == [t |-> "null"]

JsNum(n) == [t |-> "num", n |-> n]

JsObj(f) == [t |-> "obj", f |-> f]

\* A thrown exception, as the result of an operator that can throw.
Thrown == [ok |-> FALSE]

Ok(v) == [ok |-> TRUE, v |-> v]

(***************************************************************************)
(* lib/auth.ts: parseJwt                                                   *)
(***************************************************************************)

\* String.prototype.split on a one-character separator.
RECURSIVE split(_, _)
split(s, sep) ==
  IF \A i \in 1..Len(s) : s[i] # sep
  THEN <<s>>
  ELSE LET k == CHOOSE i \in 1..Len(s) :
                   s[i] = sep /\ \A j \in 1..(i - 1) : s[j] # sep
       IN  <<SubSeq(s, 1, k - 1)>> \o split(SubSeq(s, k + 1, Len(s)), sep)

\* base64Payload.replace(/-/g, '+').replace(/_/g, '/')
replaceUrlSafe(s) ==
  [i \in 1..Len(s) |-> IF s[i] = "-" THEN "+" ELSE IF s[i] = "_" THEN "/" ELSE s[i]]

B64Alphabet ==
  << "A","B","C","D","E","F","G","H","I","J","K","L","M","N","O","P",
     "Q","R","S","T","U","V","W","X","Y","Z","a","b","c","d","e","f",
     "g","h","i","j","k","l","m","n","o","p","q","r","s","t","u","v",
     "w","x","y","z","0","1","2","3","4","5","6","7","8","9","+","/" >>

B64Index(c) == (CHOOSE i \in 1..64 : B64Alphabet[i] = c) - 1

IsB64Char(c) == \E i \in 1..64 : B64Alphabet[i] = c

\* The bytes of a run of base64 characters (no padding): every 4 characters
\* give 3 bytes, a tail of 3 gives 2 bytes, a tail of 2 gives 1 byte.
RECURSIVE b64Bytes(_)
b64Bytes(s) ==
  IF Len(s) < 2 THEN <<>>
  ELSE LET a == B64Index(s[1])
           b == B64Index(s[2])
           b1 == a * 4 + (b \div 16)
       IN  IF Len(s) = 2 THEN <<b1>>
           ELSE LET c == B64Index(s[3])
                    b2 == (b % 16) * 16 + (c \div 4)
                IN  IF Len(s) = 3 THEN <<b1, b2>>
                    ELSE LET d == B64Index(s[4])
                             b3 == (c % 4) * 64 + d
                         IN  <<b1, b2, b3>> \o b64Bytes(SubSeq(s, 5, Len(s)))

\* window.atob (forgiving-base64 decode): padding is removed when the length
\* is a multiple of 4; a remaining length of 1 mod 4 or a character outside
\* the alphabet throws.
atob(s) ==
  LET n == Len(s)
      stripped ==
        IF n > 0 /\ n % 4 = 0 /\ s[n] = "="
        THEN IF s[n - 1] = "=" THEN SubSeq(s, 1, n - 2) ELSE SubSeq(s, 1, n - 1)
        ELSE s
  IN  IF Len(stripped) % 4 = 1 \/ \E i \in 1..Len(stripped) : ~IsB64Char(stripped[i])
      THEN Thrown
      ELSE Ok(b64Bytes(stripped))

\* decodeURIComponent of the percent-encoded bytes: UTF-8 decoding, which
\* throws on a malformed sequence.  One-byte characters and two-byte
\* sequences are decoded; any other lead byte is malformed here.
RECURSIVE utf8Valid(_)
utf8Valid(bytes) ==
  IF bytes = <<>> THEN TRUE
  ELSE IF bytes[1] < 128 THEN utf8Valid(Tail(bytes))
  ELSE IF bytes[1] >= 194 /\ bytes[1] <= 223
          /\ Len(bytes) >= 2 /\ bytes[2] >= 128 /\ bytes[2] <= 191
       THEN utf8Valid(SubSeq(bytes, 3, Len(bytes)))
  ELSE FALSE

decodeURIComponent(bytes) == IF utf8Valid(bytes) THEN Ok(bytes) ELSE Thrown

IsDigit(b) == b >= 48 /\ b <= 57

RECURSIVE digitsValue(_)
digitsValue(bytes) ==
  IF bytes = <<>> THEN 0
  ELSE digitsValue(SubSeq(bytes, 1, Len(bytes) - 1)) * 10 + (bytes[Len(bytes)] - 48)

\* A JSON number without sign, fraction or exponent: "0" or digits with no
\* leading zero.
IsJsonNat(bytes) ==
  /\ bytes # <<>>
  /\ \A i \in 1..Len(bytes) : IsDigit(bytes[i])
  /\ (Len(bytes) > 1 => bytes[1] # 48)

\* The three-letter keys the parser knows, by their ASCII codes.
KeyName(k) ==
  IF k = <<101, 120, 112>> THEN "exp"
  ELSE IF k = <<115, 117, 98>> THEN "sub"
  ELSE IF k = <<105, 97, 116>> THEN "iat"
  ELSE "?"

\* JSON.parse on the texts this model uses: null, a natural number, {} and an
\* object with one three-letter key and a natural-number value.  Every other
\* text of the model's inputs is not JSON and throws SyntaxError.
JSONparse(bytes) ==
  IF bytes = <<110, 117, 108, 108>> THEN Ok(JsNull)
  ELSE IF IsJsonNat(bytes) THEN Ok(JsNum(digitsValue(bytes)))
  ELSE IF bytes = <<123, 125>> THEN Ok(JsObj(<<>>))
  ELSE IF /\ Len(bytes) >= 9
          /\ bytes[1] = 123 /\ bytes[2] = 34 /\ bytes[6] = 34 /\ bytes[7] = 58
          /\ bytes[Len(bytes)] = 125
          /\ KeyName(SubSeq(bytes, 3, 5)) # "?"
          /\ IsJsonNat(SubSeq(bytes, 8, Len(bytes) - 1))
       THEN Ok(JsObj([k \in {KeyName(SubSeq(bytes, 3, 5))} |->
                        digitsValue(SubSeq(bytes, 8, Len(bytes) - 1))]))
  ELSE Thrown

parseJwtSecondSegment(token) ==
  LET parts == split(token, ".")
  IN  IF Len(parts) < 2 THEN JsNull
      ELSE LET raw == atob(replaceUrlSafe(parts[2]))
           IN  IF ~raw.ok THEN JsNull
               ELSE LET text == decodeURIComponent(raw.v)
                    IN  IF ~text.ok THEN JsNull
                        ELSE LET parsed == JSONparse(text.v)
                             IN  IF ~parsed.ok THEN JsNull ELSE parsed.v

\* parseJwt: null unless the token has three segments and the middle one
\* decodes; every exception is caught and gives null.
parseJwt(token) ==
  LET parts == split(token, ".")
  IN  IF Len(parts) # 3 THEN JsNull
      ELSE LET raw == atob(replaceUrlSafe(parts[2]))
           IN  IF ~raw.ok THEN JsNull
               ELSE LET text == decodeURIComponent(raw.v)
                    IN  IF ~text.ok THEN JsNull
                        ELSE LET parsed == JSONparse(text.v)
                             IN  IF ~parsed.ok THEN JsNull ELSE parsed.v


(***************************************************************************)
(* Bounds and program constants                                            *)
(***************************************************************************)

\* Date.now() advances in steps of TickMs up to MaxNow (milliseconds).
TickMs == 1000

MaxNow == 2000

\* Requests of the shared client one screen may issue, and have in flight.
MaxRequests == 2

\* "exp is in seconds, Date.now() is in milliseconds"
MsPerSecond == 1000

HTTP_UNAUTHORIZED == 401

(***************************************************************************)
(* Sample data                                                             *)
(***************************************************************************)

Jwt(payload) == <<"h", ".">> \o payload \o <<".", "s">>

\* {"exp":1}
TokenA == Jwt(<<"e","y","J","l","e","H","A","i","O","j","F","9">>)

\* {"exp":5}
TokenB == Jwt(<<"e","y","J","l","e","H","A","i","O","j","V","9">>)

\* Tokens the login endpoint may issue.
IssuedTokens == {TokenA, TokenB}

TenantIds == {<<"t","1">>}

TOKEN_KEY == "waas_token"

TENANT_KEY == "waas_tenant"

LOGIN_PATH == "/login"

DashboardRoutes ==
  {"/dashboard", "/chats", "/customers", "/services", "/availability",
   "/appointments", "/settings"}

\* Routes nested under <ProtectedRoute/>.
ProtectedPaths == DashboardRoutes \cup {"/setup", "/"}

Paths == ProtectedPaths \cup {LOGIN_PATH}

\* The paths the user moves between.
VisitedPaths == {LOGIN_PATH, "/dashboard", "/setup"}

OnboardingStatuses == {"none", "IN_PROGRESS", "COMPLETED"}

\* Response outcomes: a status, or no response at all (transport failure).
Outcomes == {200, HTTP_UNAUTHORIZED, 403, 500, 0}

VARIABLES
  localStorage,      \* [key -> string or Null]
  onboardingStatus,  \* the onboarding-completion marker
  now,               \* Date.now()
  pathname,          \* window.location.pathname
  navTarget,         \* a started, not yet committed document navigation
  inflight,          \* requests sent through the shared client, unanswered
  issued,            \* requests issued since the current screen was routed to
  hrefAssignments,   \* 401-triggered location.href = '/login' since page load
  rendered,          \* the route whose element is rendered, or "none"
  lastGuard          \* the route guard's last evaluation

sessionVars ==
  <<localStorage, onboardingStatus, now, pathname, navTarget, inflight,
    issued, hrefAssignments, rendered, lastGuard>>

VARIABLES
  jwtArg,            \* the argument of the isTokenExpired call (Null: omitted)
  jwtCalled,         \* the call has returned
  jwtResult          \* what it returned

jwtVars == <<jwtArg, jwtCalled, jwtResult>>

VARIABLES
  form,              \* AddAppointmentModal's component state
  isOpen,            \* the isOpen prop, owned by the parent
  tzOffset,          \* the browser's UTC offset in minutes
  loads,             \* provider and service list loads in flight
  searchTimer,       \* the pending debounce timer: its phone and when it is due
  searches,          \* patient searches in flight
  checks,            \* availability checks in flight
  creates,           \* create-appointment requests in flight
  calls              \* requests issued, callbacks invoked, whose verdict shows

modalVars ==
  <<form, isOpen, tzOffset, loads, searchTimer, searches, checks, creates, calls>>

VARIABLES
  draft,             \* localStorage['bookzi_onboarding_progress']
  wizard,            \* OnboardingPage's component state
  completion,        \* handleComplete: its position, isSubmitting, error, isComplete
  rawRequests,       \* requests handleComplete has sent with axios itself
  loaded             \* what the last call of loadProgress returned

wizardVars == <<draft, wizard, completion, rawRequests, loaded>>

VARIABLES
  chatsPage,         \* ChatsPage: mounted, selectedChatId
  chatList,          \* ChatList: mounted, its interval
  chatPanel,         \* ChatPanel: mounted, its state, its interval
  chatReqs           \* requests of the two chat views in flight

chatVars == <<chatsPage, chatList, chatPanel, chatReqs>>

VARIABLES
  staffTab,            \* StaffManagementTab's component state
  staffReqs,           \* its requests in flight
  availModal,          \* ProviderAvailabilityModal's component state
  serverAvailability,  \* the provider's availability slots held by the server
  verifyModal          \* EmailVerificationModal's component state and timers

tabVars == <<staffTab, staffReqs, availModal, serverAvailability, verifyModal>>

vars == <<sessionVars, jwtVars, modalVars, wizardVars, chatVars, tabVars>>

(***************************************************************************)
(* lib/api.ts, lib/auth.ts: the session store                              *)
(***************************************************************************)

\* if (x) on a string or null.
Truthy(s) == s # Null /\ s # <<>>

getItem(ls, key) == ls[key]

getToken(ls) == getItem(ls, TOKEN_KEY)

getTenantId(ls) == getItem(ls, TENANT_KEY)

\* clearToken (api.ts) and the removal in logout (auth.ts).
clearTokenOnly(ls) == [ls EXCEPT ![TOKEN_KEY] = Null]

clearToken(ls) == [ls EXCEPT ![TOKEN_KEY] = Null, ![TENANT_KEY] = Null]

\* lib/auth.ts: getToken() != null
isAuthenticated(ls) == getToken(ls) # Null

isTokenExpiredNoDivision(ls, t, token) ==
  LET tokenToCheck == IF Truthy(token) THEN token ELSE getToken(ls)
  IN  IF ~Truthy(tokenToCheck) THEN TRUE
      ELSE LET payload == parseJwt(tokenToCheck)
           IN  IF payload.t # "obj" \/ "exp" \notin DOMAIN payload.f THEN TRUE
               ELSE payload.f["exp"] < t

\* isTokenExpired(token?) at time t = Date.now(); token = Null when the
\* argument is omitted.  !payload holds of null and of the number 0; a number
\* has no exp; !payload.exp holds of a missing exp and of exp = 0.
\* payload.exp < Date.now() / 1000 is compared exactly, in milliseconds.
isTokenExpired(ls, t, token) ==
  LET tokenToCheck == IF Truthy(token) THEN token ELSE getToken(ls)
  IN  IF ~Truthy(tokenToCheck) THEN TRUE
      ELSE LET payload == parseJwt(tokenToCheck)
           IN  IF payload.t # "obj" THEN TRUE
               ELSE IF "exp" \notin DOMAIN payload.f \/ payload.f["exp"] = 0 THEN TRUE
               ELSE payload.f["exp"] * MsPerSecond < t

\* The marker the guard reads.
getOnboardingStatus(marker) == marker

(***************************************************************************)
(* routes/ProtectedRoute.tsx                                               *)
(***************************************************************************)

Redirect(to) == [kind |-> "redirect", to |-> to]

RenderOutlet == [kind |-> "render", to |-> "outlet"]

ProtectedRouteOnboardingFirst(ls, t, marker, path) ==
  LET isOnSetupPage == path = "/setup"
      isDashboardRoute == path \in DashboardRoutes
  IN  IF getOnboardingStatus(marker) # "COMPLETED" /\ isDashboardRoute
      THEN Redirect("/setup")
      ELSE IF ~isAuthenticated(ls) THEN Redirect(LOGIN_PATH)
      ELSE IF isTokenExpired(ls, t, Null) THEN Redirect(LOGIN_PATH)
      ELSE IF getOnboardingStatus(marker) = "COMPLETED" /\ isOnSetupPage
      THEN Redirect("/dashboard")
      ELSE RenderOutlet

ProtectedRoute(ls, t, marker, path) ==
  LET isOnSetupPage == path = "/setup"
      isDashboardRoute == path \in DashboardRoutes
  IN  IF ~isAuthenticated(ls) THEN Redirect(LOGIN_PATH)
      ELSE IF isTokenExpired(ls, t, Null) THEN Redirect(LOGIN_PATH)
      ELSE IF getOnboardingStatus(marker) # "COMPLETED" /\ isDashboardRoute
      THEN Redirect("/setup")
      ELSE IF getOnboardingStatus(marker) = "COMPLETED" /\ isOnSetupPage
      THEN Redirect("/dashboard")
      ELSE RenderOutlet


(***************************************************************************)
(* lib/api.ts: the shared HTTP client                                      *)
(***************************************************************************)

BearerPrefix == <<"B","e","a","r","e","r"," ">>

requestInterceptorNoPrefix(ls) ==
  [auth   |-> IF Truthy(getToken(ls)) THEN getToken(ls) ELSE Null,
   tenant |-> IF Truthy(getTenantId(ls)) THEN getTenantId(ls) ELSE Null]

\* The headers the request interceptor leaves on a request that set none
\* itself; Null is an absent header.
requestInterceptor(ls) ==
  [auth   |-> IF Truthy(getToken(ls)) THEN BearerPrefix \o getToken(ls) ELSE Null,
   tenant |-> IF Truthy(getTenantId(ls)) THEN getTenantId(ls) ELSE Null]

Is401OrForbidden(outcome) == outcome # 0 /\ outcome \in {HTTP_UNAUTHORIZED, 403}

\* The response interceptor's error handler, before it rejects: outcome 0 is
\* an error without a response.
Is401(outcome) == outcome # 0 /\ outcome = HTTP_UNAUTHORIZED

responseInterceptorSwallows401(outcome) ==
  IF outcome = 200 \/ Is401(outcome) THEN [rejected |-> FALSE, status |-> outcome]
  ELSE [rejected |-> TRUE, status |-> outcome]

\* What the caller's promise settles to: the response, or
\* Promise.reject(error) for every error.
responseInterceptor(outcome) ==
  IF outcome = 200 THEN [rejected |-> FALSE, status |-> outcome]
  ELSE [rejected |-> TRUE, status |-> outcome]

\* The keys of local storage the client writes: the session store's two and
\* the five the onboarding wizard writes after registration.
StorageKeys == {TOKEN_KEY, TENANT_KEY, "token", "userId", "tenantId", "role", "email"}

InitSession ==
  /\ localStorage = [k \in StorageKeys |-> Null]
  /\ onboardingStatus = "none"
  /\ now = 0
  /\ pathname = LOGIN_PATH
  /\ navTarget = "none"
  /\ inflight = {}
  /\ issued = 0
  /\ hrefAssignments = 0
  /\ rendered = "none"
  /\ lastGuard = [path |-> "none", token |-> Null, at |-> 0, marker |-> "none",
                  outcome |-> RenderOutlet]

\* Time passes.
Tick ==
  /\ UNCHANGED <<jwtVars, modalVars, wizardVars, chatVars, tabVars>>
  /\ now + TickMs <= MaxNow
  /\ now' = now + TickMs
  /\ UNCHANGED <<localStorage, onboardingStatus, pathname, navTarget, inflight,
                 issued, hrefAssignments, rendered, lastGuard>>

\* A screen calls the shared client: the login form on /login, any call of a
\* protected screen (a poll, a load, a save) otherwise.  stored is the token
\* in storage when the request is issued.
SendRequest ==
  /\ UNCHANGED <<jwtVars, modalVars, wizardVars, chatVars, tabVars>>
  /\ issued < MaxRequests
  /\ Cardinality(inflight) < MaxRequests
  /\ rendered # "none"
  /\ LET headers == requestInterceptor(localStorage)
         req == [id |-> CHOOSE i \in 1..MaxRequests : \A q \in inflight : q.id # i,
                 kind |-> IF rendered = LOGIN_PATH THEN "login" ELSE "api",
                 auth |-> headers.auth,
                 tenant |-> headers.tenant,
                 stored |-> localStorage[TOKEN_KEY]]
     IN  inflight' = inflight \cup {req}
  /\ issued' = issued + 1
  /\ UNCHANGED <<localStorage, onboardingStatus, now, pathname, navTarget,
                 hrefAssignments, rendered, lastGuard>>

\* A response (or a transport failure) reaches the response interceptor and
\* then the caller.  The login caller stores the session and LoginPage goes to
\* /dashboard; every other caller only shows the data or the error.
ReceiveResponse(r, outcome, tok, tid) ==
  /\ r \in inflight
  /\ inflight' = inflight \ {r}
  /\ LET result == responseInterceptor(outcome)
         afterInterceptor == IF Is401(outcome) THEN clearToken(localStorage)
                             ELSE localStorage
         loggedIn == ~result.rejected /\ r.kind = "login"
     IN  /\ localStorage' =
               IF loggedIn
               THEN [afterInterceptor EXCEPT ![TOKEN_KEY] = tok, ![TENANT_KEY] = tid]
               ELSE afterInterceptor
         /\ IF Is401(outcome) /\ pathname # LOGIN_PATH
            THEN /\ navTarget' = LOGIN_PATH
                 /\ hrefAssignments' = hrefAssignments + 1
            ELSE UNCHANGED <<navTarget, hrefAssignments>>
         /\ IF loggedIn
            THEN /\ pathname' = "/dashboard"
                 /\ rendered' = "none"
                 /\ issued' = 0
            ELSE UNCHANGED <<pathname, rendered, issued>>
  /\ UNCHANGED <<onboardingStatus, now, lastGuard>>
  /\ UNCHANGED <<jwtVars, modalVars, wizardVars, chatVars, tabVars>>

\* logout(): the sidebar's Logout item.
Logout ==
  /\ UNCHANGED <<jwtVars, modalVars, wizardVars, chatVars, tabVars>>
  /\ rendered \in ProtectedPaths
  /\ localStorage' = clearToken(localStorage)
  /\ navTarget' = "/"
  /\ UNCHANGED <<onboardingStatus, now, pathname, inflight,
                 issued, hrefAssignments, rendered, lastGuard>>

\* The document navigation started by an assignment to location.href commits:
\* the page is replaced, its pending requests and script state are gone.
CommitNavigation ==
  /\ UNCHANGED <<jwtVars, modalVars, wizardVars, chatVars, tabVars>>
  /\ navTarget # "none"
  /\ pathname' = navTarget
  /\ navTarget' = "none"
  /\ inflight' = {}
  /\ issued' = 0
  /\ hrefAssignments' = 0
  /\ rendered' = "none"
  /\ UNCHANGED <<localStorage, onboardingStatus, now, lastGuard>>

\* A client-side route change (a sidebar link, navigate()) while no document
\* navigation is pending.
UserNavigate(p) ==
  /\ UNCHANGED <<jwtVars, modalVars, wizardVars, chatVars, tabVars>>
  /\ rendered # "none"
  /\ navTarget = "none"
  /\ p # pathname
  /\ pathname' = p
  /\ rendered' = "none"
  /\ issued' = 0
  /\ UNCHANGED <<localStorage, onboardingStatus, now, navTarget, inflight,
                 hrefAssignments, lastGuard>>

\* The router renders the element of the current path: <ProtectedRoute/> for
\* a protected path, which redirects (replace) or renders its outlet.  A page
\* that is being left is not routed again.
RenderRoute ==
  /\ UNCHANGED <<jwtVars, modalVars, wizardVars, chatVars, tabVars>>
  /\ rendered = "none"
  /\ navTarget = "none"
  /\ IF pathname \in ProtectedPaths
     THEN LET res == ProtectedRoute(localStorage, now, onboardingStatus, pathname)
          IN  /\ lastGuard' = [path |-> pathname, token |-> localStorage[TOKEN_KEY],
                               at |-> now, marker |-> onboardingStatus,
                               outcome |-> res]
              /\ IF res.kind = "redirect"
                 THEN pathname' = res.to /\ UNCHANGED rendered
                 ELSE rendered' = pathname /\ UNCHANGED pathname
     ELSE /\ rendered' = pathname
          /\ UNCHANGED <<pathname, lastGuard>>
  /\ UNCHANGED <<localStorage, onboardingStatus, now, navTarget, inflight,
                 issued, hrefAssignments>>

\* The setup screen records the onboarding status.
SetOnboardingStatus(s) ==
  /\ UNCHANGED <<jwtVars, modalVars, wizardVars, chatVars, tabVars>>
  /\ rendered = "/setup"
  /\ onboardingStatus # s
  /\ onboardingStatus' = s
  /\ UNCHANGED <<localStorage, now, pathname, navTarget, inflight,
                 issued, hrefAssignments, rendered, lastGuard>>


(***************************************************************************)
(* isTokenExpired on sample tokens                                         *)
(***************************************************************************)

\* {"exp":0}
TokenExpZero == Jwt(<<"e","y","J","l","e","H","A","i","O","j","B","9">>)

\* header and payload, no signature segment
TokenTwoSegments == <<"h", ".">> \o <<"e","y","J","l","e","H","A","i","O","j","J","9">>

TokenFourSegments == TokenA \o <<".", "x">>

\* the middle segment is no base64
TokenNotBase64 == Jwt(<<"!", "!">>)

\* the middle segment decodes to the bytes FF FF, which are no UTF-8 text
TokenNotUtf8 == Jwt(<<"_", "_", "8">>)

\* {"exp":  (cut short: no JSON)
TokenNotJson == Jwt(<<"e","y","J","l","e","H","A","i","O","g","=","=">>)

\* {}
TokenEmptyObject == Jwt(<<"e","3","0">>)

\* {"sub":1}
TokenNoExp == Jwt(<<"e","y","J","z","d","W","I","i","O","j","F","9">>)

\* null
TokenJsonNull == Jwt(<<"b","n","V","s","b","A">>)

\* 7
TokenJsonNumber == Jwt(<<"N","w">>)

MalformedTokens ==
  {TokenTwoSegments, TokenFourSegments, TokenNotBase64, TokenNotUtf8,
   TokenNotJson, TokenEmptyObject, TokenNoExp, TokenJsonNull, TokenJsonNumber}

WellFormedTokens == {TokenA, TokenB, TokenExpZero}

\* Arguments of a call: omitted, the empty string, or a token.
JwtArgs == {Null, <<>>} \cup WellFormedTokens \cup MalformedTokens

\* What storage may hold under the token key.
JwtStored == {Null, TokenA, TokenB, TokenNotBase64}

JwtTimes == {t \in 0..MaxNow : t % TickMs = 0}

\* Segments a token handed to parseJwt may be made of.
HeaderSegments == {<<>>, <<"h">>}

PayloadSegments ==
  { <<"e","y","J","l","e","H","A","i","O","j","F","9">>,      \* {"exp":1}
    <<"e","y","J","l","e","H","A","i","O","j","V","9">>,      \* {"exp":5}
    <<"e","y","J","l","e","H","A","i","O","j","B","9">>,      \* {"exp":0}
    <<"e","y","J","z","d","W","I","i","O","j","F","9">>,      \* {"sub":1}
    <<"e","3","0">>,                                          \* {}
    <<"e","3","0","=">>,                                      \* {} with padding
    <<"b","n","V","s","b","A">>,                              \* null
    <<"N","w">>,                                              \* 7
    <<"!","!">>,                                              \* no base64
    <<"A">>,                                                  \* no base64: one character
    <<"_","_","8">>,                                          \* bytes FF FF: no UTF-8
    <<"e","y","J","l","e","H","A","i","O","g","=","=">>,      \* {"exp": cut short
    <<>> }

SignatureSegments == {<<>>, <<"s">>, <<"f","o","r","g","e","d">>}

join3(h, pl, sig) == h \o <<".">> \o pl \o <<".">> \o sig

\* Arguments of parseJwt: tokens of three segments, and texts of one, two and
\* four segments.
ParseArgs ==
  { join3(h, pl, sig) : h \in HeaderSegments, pl \in PayloadSegments,
                        sig \in SignatureSegments }
  \cup { <<>>, <<"h">>, TokenTwoSegments, TokenFourSegments,
         <<".">>, <<".", ".", ".">>,
         TokenA \o <<".">> }

InitParse ==
  /\ jwtArg \in ParseArgs
  /\ jwtCalled = FALSE
  /\ jwtResult = JsNull

\* parseJwt(jwtArg) is called and returns.
CallParseJwt ==
  /\ ~jwtCalled
  /\ jwtCalled' = TRUE
  /\ jwtResult' = parseJwt(jwtArg)
  /\ UNCHANGED <<jwtArg, sessionVars, modalVars, wizardVars, chatVars, tabVars>>

\* The next call of parseJwt, with another argument.
NextParseCall(arg) ==
  /\ jwtCalled
  /\ jwtArg' = arg
  /\ jwtCalled' = FALSE
  /\ jwtResult' = JsNull
  /\ UNCHANGED <<sessionVars, modalVars, wizardVars, chatVars, tabVars>>

InitJwt ==
  /\ jwtArg \in JwtArgs
  /\ jwtCalled = FALSE
  /\ jwtResult = FALSE

JwtIdle ==
  /\ jwtArg = Null
  /\ jwtCalled = FALSE
  /\ jwtResult = FALSE

\* isTokenExpired(jwtArg) is called and returns.
CallIsTokenExpired ==
  /\ ~jwtCalled
  /\ jwtCalled' = TRUE
  /\ jwtResult' = isTokenExpired(localStorage, now, jwtArg)
  /\ UNCHANGED <<jwtArg, sessionVars, modalVars, wizardVars, chatVars, tabVars>>

\* The next call, with another argument, later.
NextJwtCall(arg) ==
  /\ jwtCalled
  /\ jwtArg' = arg
  /\ jwtCalled' = FALSE
  /\ jwtResult' = FALSE
  /\ now' = IF now + TickMs <= MaxNow THEN now + TickMs ELSE now
  /\ UNCHANGED <<localStorage, onboardingStatus, pathname, navTarget, inflight,
                 issued, hrefAssignments, rendered, lastGuard, modalVars, wizardVars,
                 chatVars, tabVars>>


(***************************************************************************)
(* components/AddAppointmentModal.tsx                                      *)
(*                                                                         *)
(* A date string is <<d>>, the date of day d, a time string is <<m>>, the   *)
(* minute m of the day as HH:MM; the empty string is <<>>.  An instant is   *)
(* a number of minutes since the epoch, in UTC.                            *)
(***************************************************************************)

\* Availability checks and create requests that may be in flight together.
MaxChecks == 2

MaxSubmits == 2

MinutesPerDay == 24 * 60

\* "+05:30", the offset written into every start time
IST_OFFSET_MIN == 5 * 60 + 30

DEBOUNCE_MIN_PHONE == 3

\* setTimeout(..., 500)
DEBOUNCE_MS == 500

MIN_PHONE_LENGTH == 10

SUGGESTIONS_SHOWN == 3

MSG_PHONE == "Please enter a valid phone number"

MSG_NAME == "Please enter patient name for new patient"

MSG_SERVICE == "Please select a service"

MSG_PROVIDER == "Please select a provider"

MSG_DATETIME == "Please select date and time"

MSG_UNAVAILABLE == "Selected slot is not available. Please choose a different time."

MSG_GENERIC == "Failed to create appointment"

\* Sample data of the backend.
ServiceList == {[id |-> "s1", durationMinutes |-> 30]}

ProviderList == {[id |-> "p1", name |-> "Dr A"]}

KnownPatient == [found |-> TRUE, name |-> "Asha", email |-> "a@x.in"]

NoPatient == [found |-> FALSE, name |-> "", email |-> ""]

Phones == {"", "98", "987654321", "9876543210"}

TypedNames == {"", "Ravi"}

Dates == {<<>>, <<1>>}

\* 03:00 and 10:00
Times == {<<>>, <<3 * 60>>, <<10 * 60>>}

\* `${date}T${time}:00+05:30` as the instant it denotes.
StartInstant(date, time) == date[1] * MinutesPerDay + time[1] - IST_OFFSET_MIN

\* Day 2 at 03:00 and day 1 at 10:00, both +05:30.
SlotEarly == StartInstant(<<2>>, <<3 * 60>>)

SlotDay == StartInstant(<<1>>, <<10 * 60>>)

\* Day 2 at 10:00 +05:30.
SlotLate == StartInstant(<<2>>, <<10 * 60>>)

NoVerdict == [has |-> FALSE, available |-> FALSE, message |-> "", suggestions |-> <<>>]

\* What the availability endpoint may answer.
Verdicts ==
  { [has |-> TRUE, available |-> TRUE, message |-> "ok", suggestions |-> <<>>],
    [has |-> TRUE, available |-> FALSE, message |-> "conflict", suggestions |-> <<>>],
    [has |-> TRUE, available |-> FALSE, message |-> "conflict",
     suggestions |-> <<SlotDay, SlotEarly, SlotLate, SlotLate + 30>>] }

\* A rejected create request: the response's message field and the error's
\* own message, "" when absent.
CreateErrors ==
  { [serverMessage |-> "Slot already booked", message |-> "Request failed with status code 409"],
    [serverMessage |-> "", message |-> "Network Error"],
    [serverMessage |-> "", message |-> ""] }

\* No debounce timer is pending.
NoTimer == [phone |-> "", due |-> 0]

debounceTimerNoMinimum(v, t) == [phone |-> v, due |-> t + DEBOUNCE_MS]

\* The debounce effect for phone value v at time t: no timer under 3
\* characters, else one that is due 500 ms later.
debounceTimer(v, t) ==
  IF Len(v) < DEBOUNCE_MIN_PHONE THEN NoTimer
  ELSE [phone |-> v, due |-> t + DEBOUNCE_MS]

NoSlot == [providerName |-> "", date |-> <<>>, time |-> <<>>, serviceId |-> ""]

InitialForm ==
  [phone |-> "", patient |-> NoPatient, searchingPatient |-> FALSE,
   patientName |-> "", patientEmail |-> "",
   serviceId |-> "", services |-> {},
   providerId |-> "", providerName |-> "", providers |-> {},
   date |-> <<>>, time |-> <<>>,
   checkingAvailability |-> FALSE, availability |-> NoVerdict,
   submitting |-> FALSE, error |-> ""]

InitModal ==
  /\ form = InitialForm
  /\ isOpen = FALSE
  /\ tzOffset = IST_OFFSET_MIN
  /\ loads = {}
  /\ searchTimer = NoTimer
  /\ searches = {}
  /\ checks = {}
  /\ creates = {}
  /\ calls = [created |-> 0, onSuccess |-> 0,
              verdictFor |-> NoSlot, lastCheck |-> "none", phoneAt |-> 0]

\* The slot the form selects.
CurrentSlot(f) ==
  [providerName |-> f.providerName, date |-> f.date, time |-> f.time,
   serviceId |-> f.serviceId]

AllSet(f) == f.date # <<>> /\ f.time # <<>> /\ f.providerName # "" /\ f.serviceId # ""

ServiceFound(f) == \E sv \in f.services : sv.id = f.serviceId

selectedService(f) == CHOOSE sv \in f.services : sv.id = f.serviceId

FreeId(used) == CHOOSE i \in 1..(Cardinality(used) + 1) : i \notin used

\* checkSlotAvailability up to its await: the request it sends, if any.
ChecksToSend(f) ==
  IF AllSet(f) /\ ServiceFound(f)
  THEN {[id |-> FreeId({c.id : c \in checks}),
         slot |-> CurrentSlot(f),
         startTime |-> StartInstant(f.date, f.time),
         durationMinutes |-> IF selectedService(f).durationMinutes # 0
                             THEN selectedService(f).durationMinutes ELSE 30]}
  ELSE {}

\* The availability effect: it runs after a render in which date, time,
\* providerName or serviceId changed, and checks when all four are set.
EffectChecks(f) ==
  IF CurrentSlot(f) # CurrentSlot(form) /\ AllSet(f) THEN ChecksToSend(f) ELSE {}

\* A state update is rendered and the availability effect runs.
Rendered(f) ==
  /\ Cardinality(checks \cup EffectChecks(f)) <= MaxChecks
  /\ checks' = checks \cup EffectChecks(f)
  /\ form' = IF EffectChecks(f) # {} THEN [f EXCEPT !.checkingAvailability = TRUE] ELSE f


Frame == UNCHANGED <<sessionVars, jwtVars, wizardVars, chatVars, tabVars, tzOffset>>

\* The parent opens the modal; the isOpen effect loads both lists.
OpenModal ==
  /\ ~isOpen
  /\ isOpen' = TRUE
  /\ loads' = loads \cup {"providers", "services"}
  /\ UNCHANGED <<form, searchTimer, searches, checks, creates, calls>>
  /\ Frame

\* The X and Cancel buttons call onClose; the component keeps its state.
CancelModal ==
  /\ isOpen
  /\ isOpen' = FALSE
  /\ UNCHANGED <<form, loads, searchTimer, searches, checks, creates, calls>>
  /\ Frame

\* loadProviders / loadServices return.  A failed provider load is only
\* logged; a failed service load also empties the list.
LoadResponds(kind, ok) ==
  /\ kind \in loads
  /\ loads' = loads \ {kind}
  /\ form' = IF kind = "services"
             THEN [form EXCEPT !.services = IF ok THEN ServiceList ELSE {}]
             ELSE IF ok THEN [form EXCEPT !.providers = ProviderList] ELSE form
  /\ UNCHANGED <<isOpen, searchTimer, searches, checks, creates, calls>>
  /\ Frame

\* onChange of the phone input and the debounce effect: the pending timer is
\* cleared; under 3 characters the matched patient is dropped, otherwise a
\* new timer is set.  phoneAt remembers when the phone last changed.
SetPhone(v) ==
  /\ isOpen
  /\ v # form.phone
  /\ form' = IF Len(v) < DEBOUNCE_MIN_PHONE
             THEN [form EXCEPT !.phone = v, !.patient = NoPatient]
             ELSE [form EXCEPT !.phone = v]
  /\ searchTimer' = debounceTimer(v, now)
  /\ calls' = [calls EXCEPT !.phoneAt = now]
  /\ UNCHANGED <<isOpen, loads, searches, checks, creates>>
  /\ Frame

\* The 500 ms timer fires, no earlier than it is due: searchForPatient up to
\* its await.
SearchTimerFires ==
  /\ searchTimer # NoTimer
  /\ now >= searchTimer.due
  /\ searches' = searches \cup {searchTimer.phone}
  /\ searchTimer' = NoTimer
  /\ form' = [form EXCEPT !.searchingPatient = TRUE]
  /\ UNCHANGED <<isOpen, loads, checks, creates, calls>>
  /\ Frame

\* searchPatients returns: a first match, no match, or a failure.
SearchResponds(q, outcome) ==
  /\ q \in searches
  /\ searches' = searches \ {q}
  /\ form' =
       IF outcome = "found"
       THEN [form EXCEPT !.patient = KnownPatient, !.patientName = KnownPatient.name,
                         !.patientEmail = KnownPatient.email,
                         !.searchingPatient = FALSE]
       ELSE IF outcome = "empty"
       THEN [form EXCEPT !.patient = NoPatient, !.patientName = "",
                         !.patientEmail = "", !.searchingPatient = FALSE]
       ELSE [form EXCEPT !.patient = NoPatient, !.searchingPatient = FALSE]
  /\ UNCHANGED <<isOpen, loads, searchTimer, checks, creates, calls>>
  /\ Frame

\* The name input, rendered for a new patient with a full phone number.
SetPatientName(v) ==
  /\ isOpen
  /\ ~form.patient.found /\ Len(form.phone) >= MIN_PHONE_LENGTH
  /\ v # form.patientName
  /\ form' = [form EXCEPT !.patientName = v]
  /\ UNCHANGED <<isOpen, loads, searchTimer, searches, checks, creates, calls>>
  /\ Frame

\* The service select: the empty option or one of the loaded services.
SetService(v) ==
  /\ isOpen
  /\ v \in {""} \cup {sv.id : sv \in form.services}
  /\ v # form.serviceId
  /\ Rendered([form EXCEPT !.serviceId = v])
  /\ UNCHANGED <<isOpen, loads, searchTimer, searches, creates, calls>>
  /\ Frame

\* The provider select, rendered when providers are loaded.
SetProvider(v) ==
  /\ isOpen
  /\ form.providers # {}
  /\ v \in {""} \cup {pr.name : pr \in form.providers}
  /\ v # form.providerName
  /\ Rendered([form EXCEPT
                 !.providerName = v,
                 !.providerId = IF v = "" THEN ""
                                ELSE (CHOOSE pr \in form.providers : pr.name = v).id])
  /\ UNCHANGED <<isOpen, loads, searchTimer, searches, creates, calls>>
  /\ Frame

SetDate(v) ==
  /\ isOpen
  /\ v # form.date
  /\ Rendered([form EXCEPT !.date = v])
  /\ UNCHANGED <<isOpen, loads, searchTimer, searches, creates, calls>>
  /\ Frame

SetTime(v) ==
  /\ isOpen
  /\ v # form.time
  /\ Rendered([form EXCEPT !.time = v])
  /\ UNCHANGED <<isOpen, loads, searchTimer, searches, creates, calls>>
  /\ Frame

\* checkAvailability returns: the verdict is stored whichever check it
\* answers; a failure is only logged.  verdictFor remembers the slot the
\* stored verdict was computed for.
CheckResponds(c, verdict, ok) ==
  /\ c \in checks
  /\ checks' = checks \ {c}
  /\ form' = IF ok
             THEN [form EXCEPT !.availability = verdict, !.checkingAvailability = FALSE]
             ELSE [form EXCEPT !.checkingAvailability = FALSE]
  /\ calls' = IF ok
              THEN [calls EXCEPT !.verdictFor = c.slot, !.lastCheck = "verdict"]
              ELSE [calls EXCEPT !.lastCheck = "failed"]
  /\ UNCHANGED <<isOpen, loads, searchTimer, searches, creates>>
  /\ Frame

\* disabled={submitting || (availability !== null && !availability.available)}
SubmitDisabled(f) ==
  f.submitting \/ (f.availability.has /\ ~f.availability.available)

renderedSuggestionsAll(f) ==
  IF f.availability.has /\ ~f.availability.available THEN f.availability.suggestions
  ELSE <<>>

\* availability.suggestions.slice(0, 3), inside the conflict panel.
renderedSuggestions(f) ==
  IF f.availability.has /\ ~f.availability.available
  THEN SubSeq(f.availability.suggestions, 1,
              IF Len(f.availability.suggestions) < SUGGESTIONS_SHOWN
              THEN Len(f.availability.suggestions) ELSE SUGGESTIONS_SHOWN)
  ELSE <<>>

\* new Date(s).toISOString().split('T')[0]: the UTC date.
isoDate(instant) == <<instant \div MinutesPerDay>>

\* new Date(s).toTimeString().substring(0, 5): the browser's local HH:MM.
localTime(instant, offset) == <<(instant + offset) % MinutesPerDay>>

\* handleSuggestedSlot on the i-th rendered chip.
HandleSuggestedSlot(i) ==
  /\ isOpen
  /\ i \in 1..Len(renderedSuggestions(form))
  /\ LET suggestedTime == renderedSuggestions(form)[i]
     IN  Rendered([form EXCEPT !.date = isoDate(suggestedTime),
                               !.time = localTime(suggestedTime, tzOffset)])
  /\ UNCHANGED <<isOpen, loads, searchTimer, searches, creates, calls>>
  /\ Frame


validationErrorShortPhone(f) ==
  IF f.phone = "" \/ Len(f.phone) < MIN_PHONE_LENGTH - 1 THEN MSG_PHONE
  ELSE IF ~f.patient.found /\ f.patientName = "" THEN MSG_NAME
  ELSE IF f.serviceId = "" THEN MSG_SERVICE
  ELSE IF f.providerName = "" THEN MSG_PROVIDER
  ELSE IF f.date = <<>> \/ f.time = <<>> THEN MSG_DATETIME
  ELSE IF f.availability.has /\ ~f.availability.available THEN MSG_UNAVAILABLE
  ELSE ""

validationErrorNoVerdict(f) ==
  IF f.phone = "" \/ Len(f.phone) < MIN_PHONE_LENGTH THEN MSG_PHONE
  ELSE IF ~f.patient.found /\ f.patientName = "" THEN MSG_NAME
  ELSE IF f.serviceId = "" THEN MSG_SERVICE
  ELSE IF f.providerName = "" THEN MSG_PROVIDER
  ELSE IF f.date = <<>> \/ f.time = <<>> THEN MSG_DATETIME
  ELSE ""

\* handleSubmit's validation: the message of the first check that fails, ""
\* when all pass.
validationError(f) ==
  IF f.phone = "" \/ Len(f.phone) < MIN_PHONE_LENGTH THEN MSG_PHONE
  ELSE IF ~f.patient.found /\ f.patientName = "" THEN MSG_NAME
  ELSE IF f.serviceId = "" THEN MSG_SERVICE
  ELSE IF f.providerName = "" THEN MSG_PROVIDER
  ELSE IF f.date = <<>> \/ f.time = <<>> THEN MSG_DATETIME
  ELSE IF f.availability.has /\ ~f.availability.available THEN MSG_UNAVAILABLE
  ELSE ""

\* The CreateAppointmentRequest built from the form; durationMinutes 0 stands
\* for undefined.
createRequest(f, id) ==
  [id |-> id,
   phone |-> f.phone,
   name |-> IF f.patient.found /\ f.patient.name # "" THEN f.patient.name
            ELSE f.patientName,
   email |-> IF f.patient.found /\ f.patient.email # "" THEN f.patient.email
             ELSE f.patientEmail,
   serviceId |-> f.serviceId,
   providerName |-> f.providerName,
   providerId |-> f.providerId,
   startTime |-> StartInstant(f.date, f.time),
   durationMinutes |-> IF ServiceFound(f) THEN selectedService(f).durationMinutes ELSE 0,
   source |-> "MANUAL"]

\* handleSubmit, the form's onSubmit handler, up to its await.
HandleSubmit ==
  /\ isOpen
  /\ IF validationError(form) # ""
     THEN /\ form' = [form EXCEPT !.error = validationError(form)]
          /\ UNCHANGED <<creates, calls>>
     ELSE /\ calls.created < MaxSubmits
          /\ creates' = creates \cup {createRequest(form, FreeId({c.id : c \in creates}))}
          /\ calls' = [calls EXCEPT !.created = calls.created + 1]
          /\ form' = [form EXCEPT !.error = "", !.submitting = TRUE]
  /\ UNCHANGED <<isOpen, loads, searchTimer, searches, checks>>
  /\ Frame

resetForm(f) ==
  [f EXCEPT !.phone = "", !.patient = NoPatient, !.patientName = "",
            !.patientEmail = "", !.serviceId = "", !.providerId = "",
            !.providerName = "", !.date = <<>>, !.time = <<>>,
            !.availability = NoVerdict, !.error = ""]

\* createAppointment resolves: onSuccess(), onClose(), resetForm() and, in
\* finally, setSubmitting(false).  The parent's onClose closes the modal; the
\* emptied phone clears the debounce timer.
CreateSucceeds(c) ==
  /\ c \in creates
  /\ creates' = creates \ {c}
  /\ calls' = [calls EXCEPT !.onSuccess = calls.onSuccess + 1,
                            !.verdictFor = NoSlot, !.lastCheck = "none",
                            !.phoneAt = IF form.phone # "" THEN now ELSE calls.phoneAt]
  /\ isOpen' = FALSE
  /\ Rendered([resetForm(form) EXCEPT !.submitting = FALSE])
  /\ searchTimer' = NoTimer
  /\ UNCHANGED <<loads, searches>>
  /\ Frame

errorMessageOwnFirst(err) ==
  IF err.message # "" THEN err.message
  ELSE IF err.serverMessage # "" THEN err.serverMessage
  ELSE MSG_GENERIC

\* err.response?.data?.message || err.message || 'Failed to create appointment'
errorMessage(err) ==
  IF err.serverMessage # "" THEN err.serverMessage
  ELSE IF err.message # "" THEN err.message
  ELSE MSG_GENERIC

\* createAppointment rejects: the message is shown, submitting is reset.
CreateFails(c, err) ==
  /\ c \in creates
  /\ creates' = creates \ {c}
  /\ form' = [form EXCEPT !.error = errorMessage(err), !.submitting = FALSE]
  /\ UNCHANGED <<isOpen, loads, searchTimer, searches, checks, calls>>
  /\ Frame

NextModal ==
  \/ OpenModal
  \/ CancelModal
  \/ \E kind \in {"providers", "services"}, ok \in BOOLEAN : LoadResponds(kind, ok)
  \/ \E v \in Phones : SetPhone(v)
  \/ SearchTimerFires
  \/ \E q \in searches, outcome \in {"found", "empty", "failed"} : SearchResponds(q, outcome)
  \/ \E v \in TypedNames : SetPatientName(v)
  \/ \E v \in {"", "s1"} : SetService(v)
  \/ \E v \in {"", "Dr A"} : SetProvider(v)
  \/ \E v \in Dates : SetDate(v)
  \/ \E v \in Times : SetTime(v)
  \/ \E c \in checks, verdict \in Verdicts, ok \in BOOLEAN : CheckResponds(c, verdict, ok)
  \/ \E i \in 1..SUGGESTIONS_SHOWN : HandleSuggestedSlot(i)
  \/ HandleSubmit
  \/ \E c \in creates : CreateSucceeds(c)
  \/ \E c \in creates, err \in CreateErrors : CreateFails(c, err)


(***************************************************************************)
(* pages/OnboardingPage.tsx: the draft in local storage                    *)
(***************************************************************************)

FIRST_STEP == 1

LAST_STEP == 6

Days == {"monday", "tuesday", "wednesday", "thursday", "friday", "saturday", "sunday"}

Hours(start, end, active) == [startTime |-> start, endTime |-> end, isActive |-> active]

defaultWorkingHours ==
  [d \in Days |->
     IF d = "sunday" THEN Hours("", "", FALSE)
     ELSE IF d = "saturday" THEN Hours("09:00", "13:00", TRUE)
     ELSE Hours("09:00", "17:00", TRUE)]

defaultData ==
  [clinic |-> [name |-> "", email |-> "", password |-> "", confirmPassword |-> ""],
   doctor |-> [name |-> "", qualifications |-> ""],
   consultationTypes |-> <<>>,
   workingHours |-> defaultWorkingHours,
   currentStep |-> FIRST_STEP]

\* Working hours the hours step may hand to updateWorkingHours.
HoursSamples ==
  { defaultWorkingHours,
    [d \in Days |-> IF d = "monday" THEN Hours("10:00", "12:00", TRUE)
                    ELSE Hours("", "", FALSE)],
    [d \in Days |-> Hours("", "", FALSE)],
    [d \in Days |-> IF d = "sunday" THEN Hours("10:00", "12:00", TRUE)
                    ELSE Hours("", "", FALSE)] }

ClinicNames == {"", "City Clinic"}

DoctorNames == {"", "Dr A"}

TypeLists == {<<>>, <<"consultation">>}

\* The stored item: absent, or the text JSON.stringify wrote.  The draft holds
\* strings, numbers, booleans and plain objects only, which JSON.parse gives
\* back as they were.
NoItem == [present |-> FALSE]

JSONstringify(v) == [present |-> TRUE, json |-> v]

JSONparseItem(item) == item.json

\* A stored text that is not JSON: JSON.parse throws on it.  The empty string
\* is one of them.
Unparsable(text) == [present |-> TRUE, text |-> text]

\* JSON.parse(saved) returns.
Parses(item) == "json" \in DOMAIN item

\* if (saved): the item is there and is not the empty string.
SavedIsTruthy(item) == item.present /\ (Parses(item) \/ item.text # "")

\* {...a, ...b} for objects with the same keys as the model's records.
Spread(a, b) == [k \in DOMAIN a \cup DOMAIN b |-> IF k \in DOMAIN b THEN b[k] ELSE a[k]]

workingHoursNeedsFixAllDays(cachedData) ==
  /\ "workingHours" \in DOMAIN cachedData
  /\ \A day \in DOMAIN cachedData.workingHours :
        ~cachedData.workingHours[day].isActive

\* cachedData.workingHours && Object.entries(...).every(...)
workingHoursNeedsFix(cachedData) ==
  /\ "workingHours" \in DOMAIN cachedData
  /\ \A day \in DOMAIN cachedData.workingHours :
        day = "sunday" \/ ~cachedData.workingHours[day].isActive

\* loadProgress(), its return value: the defaults, overlaid with the cached
\* draft; the defaults when there is no draft or JSON.parse threw.
loadProgress(item) ==
  IF SavedIsTruthy(item) /\ Parses(item)
  THEN LET cachedData == JSONparseItem(item)
       IN  [k \in DOMAIN defaultData \cup DOMAIN cachedData |->
              IF k = "workingHours"
              THEN IF workingHoursNeedsFix(cachedData) THEN defaultData.workingHours
                   ELSE IF "workingHours" \in DOMAIN cachedData
                        THEN Spread(defaultData.workingHours, cachedData.workingHours)
                        ELSE defaultData.workingHours
              ELSE Spread(defaultData, cachedData)[k]]
  ELSE defaultData

\* loadProgress(), the stored item it leaves: removed in the catch.
storageAfterLoad(item) ==
  IF SavedIsTruthy(item) /\ ~Parses(item) THEN NoItem ELSE item

NotLoaded == [called |-> FALSE, data |-> defaultData]

\* Drafts found in storage: written by this or an earlier version of the
\* wizard, or damaged.
CachedHours ==
  { [d \in Days |-> IF d \in active THEN Hours("10:00", "12:00", TRUE)
                    ELSE Hours("", "", FALSE)] :
      active \in SUBSET {"monday", "saturday", "sunday"} }
  \cup { [d \in {"sunday"} |-> Hours("10:00", "12:00", TRUE)],
         [d \in {"monday"} |-> Hours("", "", FALSE)],
         [d \in {"monday", "sunday"} |-> Hours("10:00", "12:00", TRUE)],
         [d \in {} |-> Hours("", "", FALSE)] }

CachedItems ==
  { JSONstringify([clinic |-> [defaultData.clinic EXCEPT !.name = n],
                   doctor |-> defaultData.doctor,
                   consultationTypes |-> <<>>,
                   workingHours |-> h,
                   currentStep |-> st]) :
      h \in CachedHours, n \in ClinicNames, st \in {1, 3} }
  \cup { JSONstringify([clinic |-> defaultData.clinic, currentStep |-> 2]),
         Unparsable("{"), Unparsable(""), NoItem }

\* The save effect: { ...data, currentStep } is written.
saveProgress(data, currentStep) ==
  JSONstringify([data EXCEPT !.currentStep = currentStep])

Unmounted == [mounted |-> FALSE, data |-> defaultData, currentStep |-> FIRST_STEP]

\* handleComplete's component state; phase is where the handler stands.
Idle == [phase |-> "idle", isSubmitting |-> FALSE, error |-> "", isComplete |-> FALSE]

InitWizard ==
  /\ draft = NoItem
  /\ wizard = Unmounted
  /\ completion = Idle
  /\ rawRequests = {}
  /\ loaded = NotLoaded

FrameWizard == UNCHANGED <<sessionVars, jwtVars, modalVars, chatVars, tabVars>>

\* The step after the load-step effect: it reads what the save effect, which
\* is declared first and so runs first, has just written.
stepAfterMount(item) ==
  LET data0 == loadProgress(item)
      written == saveProgress(data0, FIRST_STEP)
  IN  IF loadProgress(written).currentStep # 0
      THEN loadProgress(written).currentStep ELSE FIRST_STEP

\* The wizard mounts: useState(1), useState(loadProgress), then the effects in
\* the order of their declaration, then the save effect again for the render
\* that setCurrentStep caused.
MountWizard ==
  /\ ~wizard.mounted
  /\ LET data0 == loadProgress(draft)
         step == stepAfterMount(draft)
     IN  /\ wizard' = [mounted |-> TRUE, data |-> data0, currentStep |-> step]
         /\ draft' = saveProgress(data0, step)
  /\ UNCHANGED <<completion, rawRequests, loaded>>
  /\ FrameWizard

\* loadProgress() is called.
CallLoadProgress ==
  /\ loaded' = [called |-> TRUE, data |-> loadProgress(draft)]
  /\ draft' = storageAfterLoad(draft)
  /\ UNCHANGED <<wizard, completion, rawRequests>>
  /\ FrameWizard

\* The page is left or reloaded.
UnmountWizard ==
  /\ wizard.mounted
  /\ wizard' = Unmounted
  /\ UNCHANGED draft
  /\ UNCHANGED <<completion, rawRequests, loaded>>
  /\ FrameWizard

\* A state update of the mounted wizard and the save effect after it.
WizardUpdate(data, step) ==
  /\ wizard.mounted
  /\ wizard' = [wizard EXCEPT !.data = data, !.currentStep = step]
  /\ draft' = saveProgress(data, step)
  /\ UNCHANGED <<completion, rawRequests, loaded>>
  /\ FrameWizard

updateClinic(name) ==
  /\ name # wizard.data.clinic.name
  /\ WizardUpdate([wizard.data EXCEPT !.clinic.name = name], wizard.currentStep)

updateDoctor(name) ==
  /\ name # wizard.data.doctor.name
  /\ WizardUpdate([wizard.data EXCEPT !.doctor.name = name], wizard.currentStep)

updateConsultationTypes(types) ==
  /\ types # wizard.data.consultationTypes
  /\ WizardUpdate([wizard.data EXCEPT !.consultationTypes = types], wizard.currentStep)

updateWorkingHours(hours) ==
  /\ hours # wizard.data.workingHours
  /\ WizardUpdate([wizard.data EXCEPT !.workingHours = hours], wizard.currentStep)

nextStep ==
  /\ wizard.currentStep < LAST_STEP
  /\ WizardUpdate(wizard.data, wizard.currentStep + 1)

prevStep ==
  /\ wizard.currentStep > FIRST_STEP
  /\ WizardUpdate(wizard.data, wizard.currentStep - 1)


(***************************************************************************)
(* pages/OnboardingPage.tsx: handleComplete                                *)
(***************************************************************************)

Emails == {"", "a@b.c"}

Passwords == {"", "pw"}

Confirmations == {"pw", "pw2"}

Qualifications == {"", "MBBS"}

\* What the last step may hold when Complete Setup is pressed.
CompletionForms ==
  { [defaultData EXCEPT !.clinic = c, !.doctor = d, !.consultationTypes = t] :
      c \in [name : ClinicNames, email : Emails, password : Passwords,
             confirmPassword : Confirmations],
      d \in [name : DoctorNames, qualifications : Qualifications],
      t \in TypeLists }

completionCheckNoConfirmation(data) ==
  IF data.clinic.name = "" \/ data.clinic.email = "" \/ data.clinic.password = ""
  THEN [error |-> "Please fill in all required fields in Step 1", step |-> 1]
  ELSE IF data.doctor.name = "" \/ data.doctor.qualifications = ""
  THEN [error |-> "Please fill in all required fields in Step 2", step |-> 2]
  ELSE IF Len(data.consultationTypes) = 0
  THEN [error |-> "Please add at least one consultation type in Step 3", step |-> 3]
  ELSE [error |-> "", step |-> 0]

\* The checks of handleComplete in their order: the message and the step the
\* first failing one sets, step 0 when all pass.
completionCheck(data) ==
  IF data.clinic.name = "" \/ data.clinic.email = "" \/ data.clinic.password = ""
  THEN [error |-> "Please fill in all required fields in Step 1", step |-> 1]
  ELSE IF data.clinic.password # data.clinic.confirmPassword
  THEN [error |-> "Passwords do not match", step |-> 1]
  ELSE IF data.doctor.name = "" \/ data.doctor.qualifications = ""
  THEN [error |-> "Please fill in all required fields in Step 2", step |-> 2]
  ELSE IF Len(data.consultationTypes) = 0
  THEN [error |-> "Please add at least one consultation type in Step 3", step |-> 3]
  ELSE [error |-> "", step |-> 0]

\* The session a successful registration returns.
RegisteredSession ==
  [token |-> TokenB, userId |-> <<"u", "1">>, tenantId |-> <<"t", "1">>,
   role |-> <<"A", "D", "M", "I", "N">>, email |-> <<"a", "@", "b">>]

\* err.response?.data?.message and err.message of a failed registration.
RegistrationErrors ==
  { [responseMessage |-> "Email already registered", message |-> "Request failed with status code 409"],
    [responseMessage |-> "", message |-> "Network Error"],
    [responseMessage |-> "", message |-> ""] }

registrationErrorMessage(err) ==
  IF err.responseMessage # "" THEN err.responseMessage
  ELSE IF err.message # "" THEN err.message
  ELSE "Registration failed. Please try again."

\* headers: { Authorization: `Bearer ${token}` } and nothing else.
initializeHeaders(token, tenantId) ==
  [auth |-> BearerPrefix \o token, tenant |-> Null]

RegisterRequest(data) ==
  [url |-> "/api/auth/register-tenant", auth |-> Null, tenant |-> Null,
   payload |-> [clinicName |-> data.clinic.name, email |-> data.clinic.email,
                password |-> data.clinic.password, doctorName |-> data.doctor.name,
                qualifications |-> data.doctor.qualifications,
                consultationTypes |-> data.consultationTypes,
                workingHours |-> data.workingHours]]

InitializeRequest(session) ==
  LET headers == initializeHeaders(session.token, session.tenantId)
  IN  [url |-> "/api/whatsapp/config/initialize", auth |-> headers.auth,
       tenant |-> headers.tenant, payload |-> <<>>]

removeItemKept(item) == item

\* localStorage.removeItem(STORAGE_KEY)
removeItem(item) == NoItem

\* Complete Setup is pressed: handleComplete up to its first await, or to
\* the return of the first check that fails, with the save effect that the
\* change of step causes.
HandleComplete ==
  /\ wizard.mounted /\ wizard.currentStep = LAST_STEP
  /\ ~completion.isSubmitting /\ ~completion.isComplete
  /\ LET check == completionCheck(wizard.data)
     IN  IF check.step # 0
         THEN /\ completion' = [completion EXCEPT !.error = check.error,
                                                  !.isSubmitting = FALSE]
              /\ wizard' = [wizard EXCEPT !.currentStep = check.step]
              /\ draft' = saveProgress(wizard.data, check.step)
              /\ UNCHANGED <<rawRequests, loaded>>
         ELSE /\ completion' = [completion EXCEPT !.phase = "registering",
                                                  !.isSubmitting = TRUE, !.error = ""]
              /\ rawRequests' = rawRequests \cup {RegisterRequest(wizard.data)}
              /\ UNCHANGED <<wizard, draft, loaded>>
  /\ FrameWizard

\* The registration request returns.  On success the returned session is
\* written to local storage and the initialization request is sent; on
\* failure the outer catch shows the error.
RegisterResponds(ok, err) ==
  /\ completion.phase = "registering"
  /\ IF ok
     THEN /\ localStorage' = [k \in DOMAIN localStorage |->
                                IF k \in DOMAIN RegisteredSession
                                THEN RegisteredSession[k] ELSE localStorage[k]]
          /\ rawRequests' = {InitializeRequest(RegisteredSession)}
          /\ completion' = [completion EXCEPT !.phase = "initializing"]
     ELSE /\ completion' = [completion EXCEPT !.phase = "idle",
                                              !.error = registrationErrorMessage(err),
                                              !.isSubmitting = FALSE]
          /\ rawRequests' = {}
          /\ UNCHANGED localStorage
  /\ UNCHANGED <<draft, wizard, loaded>>
  /\ UNCHANGED <<onboardingStatus, now, pathname, navTarget, inflight, issued,
                 hrefAssignments, rendered, lastGuard>>
  /\ UNCHANGED <<jwtVars, modalVars, chatVars, tabVars>>

\* The initialization request returns; its failure is only logged.  The
\* draft is removed and the success screen shown.
InitializeResponds(ok) ==
  /\ completion.phase = "initializing"
  /\ rawRequests' = {}
  /\ draft' = removeItem(draft)
  /\ completion' = [completion EXCEPT !.phase = "done", !.isComplete = TRUE]
  /\ UNCHANGED <<wizard, loaded>>
  /\ FrameWizard

\* Before Complete Setup is pressed, or after it failed: fields are changed
\* and the last step is reached again.
CorrectForm(data) ==
  /\ wizard.mounted /\ ~completion.isSubmitting /\ ~completion.isComplete
  /\ data # wizard.data
  /\ wizard' = [wizard EXCEPT !.data = data, !.currentStep = LAST_STEP]
  /\ draft' = saveProgress(data, LAST_STEP)
  /\ UNCHANGED <<completion, rawRequests, loaded>>
  /\ FrameWizard


(***************************************************************************)
(* hooks/useInterval.ts, components/ChatList.tsx, components/ChatPanel.tsx *)
(***************************************************************************)

\* How far the clock of the chat views runs.
MaxPollNow == 6000

\* Chat requests in flight at once.
MaxChatRequests == 2

\* Messages sent from one mounted panel.
MaxSends == 2

\* useInterval(..., 3000) in ChatList
POLL_LIST_MS == 3000

\* useInterval(..., 2000) in ChatPanel
POLL_PANEL_MS == 2000

ChatIds == {"c1", "c2"}

\* What GET /api/chats/:id/messages may return: lists of message ids.
ServerLists == {<<>>, <<<<"srv", 1>>>>, <<<<"srv", 1>>, <<"srv", 2>>>>}

MessageTexts == {"", " ", "hi"}

\* messageText.trim()
trim(t) == IF t = " " THEN "" ELSE t

ListUnmounted == [mounted |-> FALSE, due |-> 0, mountedAt |-> 0, polls |-> 0]

PanelUnmounted ==
  [mounted |-> FALSE, due |-> 0, mountedAt |-> 0, polls |-> 0,
   chatId |-> "", saved |-> "", chat |-> "", messages |-> <<>>,
   messageText |-> "", sending |-> FALSE, sent |-> 0]

InitChat ==
  /\ chatsPage = [mounted |-> FALSE, selectedChatId |-> ""]
  /\ chatList = ListUnmounted
  /\ chatPanel = PanelUnmounted
  /\ chatReqs = {}

FrameChat == UNCHANGED <<sessionVars, jwtVars, modalVars, wizardVars, tabVars>>

\* StaffManagementTab before it is mounted; useState's initial values.
StaffUnmounted ==
  [mounted |-> FALSE, staff |-> <<>>, loading |-> TRUE, error |-> "",
   success |-> "", issued |-> 0]

\* The days of the week that are edited: Sunday and Monday.
EditedDays == {0, 1}

\* ProviderAvailabilityModal while it is closed; useState's initial values.
\* daySchedules holds the number of time slots of each day.
AvailabilityClosed ==
  [isOpen |-> FALSE, availability |-> {},
   daySchedules |-> [d \in EditedDays |-> 0], loading |-> TRUE,
   saving |-> FALSE, error |-> "", phase |-> "idle", pending |-> {},
   failed |-> FALSE, before |-> {}, saves |-> 0]

\* useState(600): the lifetime of a code, in seconds.
CODE_LIFETIME_S == 600

\* setTimeout(..., 60000): the delay before the first resend, in seconds.
RESEND_DELAY_S == 60

\* EmailVerificationModal while it is closed; useState's initial values.
\* interval and resendTimer tell whether the two timers are set, elapsed
\* counts the seconds since the modal opened while resendTimer is set, and
\* due tells that a tick of the interval is due.
VerificationClosed ==
  [isOpen |-> FALSE, timeLeft |-> CODE_LIFETIME_S, canResend |-> FALSE,
   isResending |-> FALSE, interval |-> FALSE, resendTimer |-> FALSE,
   elapsed |-> 0, due |-> FALSE, resends |-> 0, error |-> ""]

InitTabs ==
  /\ staffTab = StaffUnmounted
  /\ staffReqs = {}
  /\ availModal = AvailabilityClosed
  /\ serverAvailability = {}
  /\ verifyModal = VerificationClosed

\* setInterval(tick, delay) at time t: when the next tick is due.
setInterval(t, delay) == t + delay

\* clearInterval(id): no tick is due any more.
clearInterval == 0

staleCallback(prev, callback) == prev

\* useInterval's first effect, run after every render: savedCallback.current
\* is the callback of that render.
latestCallback(prev, callback) == callback

ChatRequest(kind, chatId, by, opt) ==
  [id |-> FreeId({r.id : r \in chatReqs}), kind |-> kind, chatId |-> chatId,
   by |-> by, opt |-> opt]

\* `temp-${Date.now()}`: a send starts only after the previous send and its
\* refetch were answered, so the stamps of two sends differ.
optimisticId(n) == <<"temp", n>>

\* ChatsPage mounts with no chat selected; ChatList mounts in it, fetches the
\* chats and starts its interval.
MountChats ==
  /\ ~chatsPage.mounted
  /\ chatsPage' = [mounted |-> TRUE, selectedChatId |-> ""]
  /\ chatList' = [mounted |-> TRUE, due |-> setInterval(now, POLL_LIST_MS),
                  mountedAt |-> now, polls |-> 0]
  /\ chatReqs' = chatReqs \cup {ChatRequest("chats", "", "mount", 0)}
  /\ UNCHANGED chatPanel
  /\ FrameChat

\* onSelect: ChatPanel is mounted by the first selection and re-rendered with
\* the new chatId by a later one; the chatId effect fetches the messages.
SelectChat(c) ==
  /\ chatsPage.mounted
  /\ c # chatsPage.selectedChatId
  /\ Cardinality(chatReqs) < MaxChatRequests
  /\ chatsPage' = [chatsPage EXCEPT !.selectedChatId = c]
  /\ chatPanel' =
       IF chatPanel.mounted
       THEN [chatPanel EXCEPT !.chatId = c,
                              !.saved = latestCallback(chatPanel.saved, c)]
       ELSE [PanelUnmounted EXCEPT !.mounted = TRUE, !.mountedAt = now,
                                   !.due = setInterval(now, POLL_PANEL_MS),
                                   !.chatId = c, !.saved = c]
  /\ chatReqs' = chatReqs \cup {ChatRequest("messages", c, "effect", 0)}
  /\ UNCHANGED chatList
  /\ FrameChat

\* The page is left: both views unmount and their intervals are cleared.  The
\* answers to requests still in flight reach no mounted view.
UnmountChats ==
  /\ chatsPage.mounted
  /\ chatsPage' = [mounted |-> FALSE, selectedChatId |-> ""]
  /\ chatList' = [ListUnmounted EXCEPT !.due = clearInterval]
  /\ chatPanel' = [PanelUnmounted EXCEPT !.due = clearInterval]
  /\ chatReqs' = {}
  /\ FrameChat

TimerDue(view) == view.due # 0 /\ view.due <= now

\* Time passes on the chats page; a tick that is due runs first.
PollClockTick ==
  /\ chatsPage.mounted
  /\ ~TimerDue(chatList) /\ ~TimerDue(chatPanel)
  /\ now + TickMs <= MaxPollNow
  /\ now' = now + TickMs
  /\ UNCHANGED <<localStorage, onboardingStatus, pathname, navTarget, inflight,
                 issued, hrefAssignments, rendered, lastGuard>>
  /\ UNCHANGED <<jwtVars, modalVars, wizardVars, chatVars, tabVars>>

\* ChatList's interval ticks: fetchChats().
ListTimerFires ==
  /\ TimerDue(chatList)
  /\ Cardinality(chatReqs) < MaxChatRequests
  /\ chatList' = [chatList EXCEPT !.due = chatList.due + POLL_LIST_MS,
                                  !.polls = chatList.polls + 1]
  /\ chatReqs' = chatReqs \cup {ChatRequest("chats", "", "timer", 0)}
  /\ UNCHANGED <<chatsPage, chatPanel>>
  /\ FrameChat

\* ChatPanel's interval ticks: savedCallback.current(), which fetches the
\* messages of the chatId of the render it comes from.
PanelTimerFires ==
  /\ TimerDue(chatPanel)
  /\ Cardinality(chatReqs) < MaxChatRequests
  /\ chatPanel' = [chatPanel EXCEPT !.due = chatPanel.due + POLL_PANEL_MS,
                                    !.polls = chatPanel.polls + 1]
  /\ chatReqs' = IF chatPanel.saved # ""
                 THEN chatReqs \cup {ChatRequest("messages", chatPanel.saved, "timer", 0)}
                 ELSE chatReqs
  /\ UNCHANGED <<chatsPage, chatList>>
  /\ FrameChat

\* fetchChats returns; the list of chats itself is not modelled.
ChatsRespond(r) ==
  /\ r \in chatReqs /\ r.kind = "chats"
  /\ chatReqs' = chatReqs \ {r}
  /\ UNCHANGED <<chatsPage, chatList, chatPanel>>
  /\ FrameChat

\* fetchMessages returns: both GETs answered, or one of them failed, which
\* is only logged.  After a send it is also the end of handleSend.
MessagesRespond(r, ok, list) ==
  /\ r \in chatReqs /\ r.kind = "messages"
  /\ chatReqs' = chatReqs \ {r}
  /\ chatPanel' =
       [chatPanel EXCEPT
          !.chat = IF ok THEN r.chatId ELSE chatPanel.chat,
          !.messages = IF ok THEN list ELSE chatPanel.messages,
          !.sending = IF r.by = "send" THEN FALSE ELSE chatPanel.sending]
  /\ UNCHANGED <<chatsPage, chatList>>
  /\ FrameChat

\* The message box.
TypeMessage(t) ==
  /\ chatPanel.mounted
  /\ t # chatPanel.messageText
  /\ chatPanel' = [chatPanel EXCEPT !.messageText = t]
  /\ UNCHANGED <<chatsPage, chatList, chatReqs>>
  /\ FrameChat

\* handleSend up to its first await.
HandleSend ==
  /\ chatPanel.mounted
  /\ trim(chatPanel.messageText) # "" /\ chatPanel.chat # "" /\ ~chatPanel.sending
  /\ chatPanel.sent < MaxSends
  /\ Cardinality(chatReqs) < MaxChatRequests
  /\ LET optimisticMessage == optimisticId(chatPanel.sent + 1)
     IN  /\ chatPanel' = [chatPanel EXCEPT
                            !.sending = TRUE,
                            !.messages = Append(chatPanel.messages, optimisticMessage),
                            !.messageText = "",
                            !.sent = chatPanel.sent + 1]
         /\ chatReqs' = chatReqs \cup
                          {ChatRequest("send", chatPanel.chatId, "send", chatPanel.sent + 1)}
  /\ UNCHANGED <<chatsPage, chatList>>
  /\ FrameChat

removeAllTemp(messages, id) == SelectSeq(messages, LAMBDA m : m[1] # "temp")

\* prev.filter(m => m.id !== optimisticMessage.id)
removeOptimistic(messages, id) == SelectSeq(messages, LAMBDA m : m # id)

\* POST /api/whatsapp/send returns: on success handleSend awaits
\* fetchMessages() of its render; on failure it removes the optimistic
\* message and resets sending.
SendResponds(r, ok) ==
  /\ r \in chatReqs /\ r.kind = "send"
  /\ IF ok
     THEN /\ chatReqs' = (chatReqs \ {r}) \cup
                           {[r EXCEPT !.kind = "messages"]}
          /\ UNCHANGED chatPanel
     ELSE /\ chatReqs' = chatReqs \ {r}
          /\ chatPanel' = [chatPanel EXCEPT
                             !.messages = removeOptimistic(chatPanel.messages,
                                                           optimisticId(r.opt)),
                             !.sending = FALSE]
  /\ UNCHANGED <<chatsPage, chatList>>
  /\ FrameChat


(***************************************************************************)
(* Specifications                                                          *)
(***************************************************************************)

\* The session store, the shared client and the router.
Init == InitSession /\ JwtIdle /\ InitModal /\ InitWizard /\ InitChat /\ InitTabs

Next ==
  \/ Tick
  \/ SendRequest
  \/ \E r \in inflight, outcome \in Outcomes, tok \in IssuedTokens, tid \in TenantIds :
       ReceiveResponse(r, outcome, tok, tid)
  \/ Logout
  \/ CommitNavigation
  \/ \E p \in VisitedPaths : UserNavigate(p)
  \/ RenderRoute
  \/ \E s \in {"IN_PROGRESS", "COMPLETED"} : SetOnboardingStatus(s)

Spec == Init /\ [][Next]_vars

\* The session and the shared client at one instant: logging in, calling,
\* being answered, logging out.
NextClient ==
  \/ SendRequest
  \/ \E r \in inflight, outcome \in Outcomes, tok \in IssuedTokens, tid \in TenantIds :
       ReceiveResponse(r, outcome, tok, tid)
  \/ Logout
  \/ CommitNavigation
  \/ \E p \in VisitedPaths : UserNavigate(p)
  \/ RenderRoute

SpecClient == Init /\ [][NextClient]_vars

\* isTokenExpired applied to sample tokens, stored tokens and times.
InitJwtCalls ==
  /\ localStorage \in {[k \in StorageKeys |-> IF k = TOKEN_KEY THEN t ELSE Null] :
                         t \in JwtStored}
  /\ now \in JwtTimes
  /\ onboardingStatus = "none"
  /\ pathname = LOGIN_PATH
  /\ navTarget = "none"
  /\ inflight = {}
  /\ issued = 0
  /\ hrefAssignments = 0
  /\ rendered = "none"
  /\ lastGuard = [path |-> "none", token |-> Null, at |-> 0, marker |-> "none",
                  outcome |-> RenderOutlet]
  /\ InitJwt /\ InitModal /\ InitWizard /\ InitChat /\ InitTabs

NextJwt ==
  \/ CallIsTokenExpired
  \/ \E arg \in JwtArgs : NextJwtCall(arg)

SpecJwt == InitJwtCalls /\ [][NextJwt]_vars

\* parseJwt applied to texts of any number of segments.
InitParseCalls ==
  /\ InitSession /\ InitParse /\ InitModal /\ InitWizard /\ InitChat /\ InitTabs

NextParse ==
  \/ CallParseJwt
  \/ \E arg \in ParseArgs : NextParseCall(arg)

SpecParse == InitParseCalls /\ [][NextParse]_vars

\* The booking modal as the user picks a slot: the lists load, the four slot
\* fields change, availability checks are answered in any order.
NextSlots ==
  \/ OpenModal
  \/ \E kind \in {"providers", "services"}, ok \in BOOLEAN : LoadResponds(kind, ok)
  \/ \E v \in {"", "s1"} : SetService(v)
  \/ \E v \in {"", "Dr A"} : SetProvider(v)
  \/ \E v \in Dates : SetDate(v)
  \/ \E v \in Times : SetTime(v)
  \/ \E c \in checks, verdict \in Verdicts, ok \in BOOLEAN : CheckResponds(c, verdict, ok)
  \/ \E i \in 1..SUGGESTIONS_SHOWN : HandleSuggestedSlot(i)

SpecSlots == Init /\ [][NextSlots]_vars

\* The booking modal at a submit: open, the lists loaded, the form in any of
\* the states typing, patient searches and availability checks leave it in.
\* A matched patient has overwritten the name; a failed search drops the
\* patient and keeps the name.
SlotOfVerdict == [providerName |-> "Dr A", date |-> <<1>>, time |-> <<10 * 60>>,
                  serviceId |-> "s1"]

SubmitForms ==
  { [InitialForm EXCEPT
       !.services = ServiceList, !.providers = ProviderList,
       !.phone = ph, !.patient = pt[1], !.patientName = pt[2],
       !.patientEmail = IF pt[1].found THEN pt[1].email ELSE "",
       !.serviceId = sv, !.providerName = pr[1], !.providerId = pr[2],
       !.date = d, !.time = t, !.availability = av] :
     ph \in Phones \ {"98"},
     pt \in {<<KnownPatient, KnownPatient.name>>, <<NoPatient, "">>,
             <<NoPatient, "Ravi">>, <<NoPatient, KnownPatient.name>>},
     sv \in {"", "s1"},
     pr \in {<<"", "">>, <<"Dr A", "p1">>},
     d \in Dates, t \in {<<>>, <<10 * 60>>},
     av \in {NoVerdict} \cup {v \in Verdicts : v.suggestions = <<>>} }

InitSubmit ==
  /\ InitSession /\ JwtIdle /\ InitWizard /\ InitChat /\ InitTabs
  /\ form \in SubmitForms
  /\ isOpen = TRUE
  /\ tzOffset = IST_OFFSET_MIN
  /\ loads = {}
  /\ searchTimer = NoTimer
  /\ searches = {}
  /\ checks = {}
  /\ creates = {}
  /\ calls = [created |-> 0, onSuccess |-> 0,
              verdictFor |-> IF form.availability.has THEN SlotOfVerdict ELSE NoSlot,
              lastCheck |-> IF form.availability.has THEN "verdict" ELSE "none",
              phoneAt |-> 0]

NextSubmit ==
  \/ HandleSubmit
  \/ \E c \in creates : CreateSucceeds(c)
  \/ \E c \in creates, err \in CreateErrors : CreateFails(c, err)

SpecSubmit == InitSubmit /\ [][NextSubmit]_vars

\* The booking modal as the user types a phone number and time passes.
NextSearch ==
  \/ OpenModal
  \/ Tick
  \/ \E v \in Phones : SetPhone(v)
  \/ SearchTimerFires
  \/ \E q \in searches, outcome \in {"found", "empty", "failed"} : SearchResponds(q, outcome)
  \/ \E v \in TypedNames : SetPatientName(v)

SpecSearch == Init /\ [][NextSearch]_vars

\* The chats page while time passes: selecting chats and polling.
NextPoll ==
  \/ MountChats
  \/ \E c \in ChatIds : SelectChat(c)
  \/ UnmountChats
  \/ PollClockTick
  \/ ListTimerFires
  \/ PanelTimerFires
  \/ \E r \in chatReqs : ChatsRespond(r)
  \/ \E r \in chatReqs, ok \in BOOLEAN, list \in ServerLists : MessagesRespond(r, ok, list)

SpecPoll == Init /\ [][NextPoll]_vars

\* The chats page between two ticks: selecting chats and sending messages.
NextSend ==
  \/ MountChats
  \/ \E c \in ChatIds : SelectChat(c)
  \/ UnmountChats
  \/ \E r \in chatReqs : ChatsRespond(r)
  \/ \E r \in chatReqs, ok \in BOOLEAN, list \in ServerLists : MessagesRespond(r, ok, list)
  \/ \E t \in MessageTexts : TypeMessage(t)
  \/ HandleSend
  \/ \E r \in chatReqs, ok \in BOOLEAN : SendResponds(r, ok)

SpecSend == Init /\ [][NextSend]_vars

\* The last step of the wizard with some form filled in.
InitComplete ==
  /\ InitSession /\ JwtIdle /\ InitModal /\ InitChat /\ InitTabs
  /\ completion = Idle
  /\ rawRequests = {}
  /\ loaded = NotLoaded
  /\ \E data \in CompletionForms :
        /\ wizard = [mounted |-> TRUE, data |-> data, currentStep |-> LAST_STEP]
        /\ draft = saveProgress(data, LAST_STEP)

\* Completing the wizard.
NextComplete ==
  \/ HandleComplete
  \/ \E ok \in BOOLEAN, err \in RegistrationErrors : RegisterResponds(ok, err)
  \/ \E ok \in BOOLEAN : InitializeResponds(ok)
  \/ \E data \in CompletionForms : CorrectForm(data)

SpecComplete == InitComplete /\ [][NextComplete]_vars

\* A draft is in storage when the page is opened.
InitLoad ==
  /\ InitSession /\ JwtIdle /\ InitModal /\ InitChat /\ InitTabs
  /\ wizard = Unmounted /\ completion = Idle /\ rawRequests = {}
  /\ loaded = NotLoaded
  /\ draft \in CachedItems

NextLoad ==
  \/ CallLoadProgress
  \/ MountWizard
  \/ UnmountWizard

SpecLoad == InitLoad /\ [][NextLoad]_vars

\* The onboarding wizard being filled in, left and opened again.
NextWizard ==
  \/ MountWizard
  \/ UnmountWizard
  \/ \E name \in ClinicNames : updateClinic(name)
  \/ \E name \in DoctorNames : updateDoctor(name)
  \/ \E types \in TypeLists : updateConsultationTypes(types)
  \/ \E hours \in HoursSamples : updateWorkingHours(hours)
  \/ nextStep
  \/ prevStep

SpecWizard == Init /\ [][NextWizard]_vars


(***************************************************************************)
(* Properties                                                              *)
(***************************************************************************)

\* C1: a 401 response to any request of the shared client, several being in
\* flight at once included, clears the stored token and tenant id and makes
\* the page navigate to /login exactly once; on /login a 401 starts no
\* navigation.
C1_Unauthorized_NavigatesOnce ==
  [][\A r \in inflight, tok \in IssuedTokens, tid \in TenantIds :
       ReceiveResponse(r, HTTP_UNAUTHORIZED, tok, tid) =>
         /\ localStorage'[TOKEN_KEY] = Null
         /\ localStorage'[TENANT_KEY] = Null
         /\ hrefAssignments' <= 1
         /\ (pathname = LOGIN_PATH => hrefAssignments' = hrefAssignments)]_vars

\* C2: a request issued while a token is stored carries Authorization equal
\* to "Bearer " followed by the token stored when it was issued, and a request
\* issued while none is stored carries no Authorization header.
C2_BearerOfStoredToken ==
  \A r \in inflight :
     IF r.stored # Null
     THEN r.auth = <<"B","e","a","r","e","r"," ">> \o r.stored
     ELSE r.auth = Null

\* A request of a protected screen is in flight with the token the login
\* stored.
C2_Witness ==
  \E r \in inflight :
     /\ r.kind = "api"
     /\ r.stored = TokenB
     /\ r.auth = <<"B","e","a","r","e","r"," ">> \o TokenB

\* The exp claim, in seconds, of the tokens the login endpoint issues.
C3_ExpSeconds(tok) == IF tok = TokenA THEN 1 ELSE 5

\* The outcome the four ordered checks give for a guard evaluation g.
C3_Expected(g) ==
  IF g.token = Null THEN Redirect("/login")
  ELSE IF C3_ExpSeconds(g.token) * 1000 < g.at THEN Redirect("/login")
  ELSE IF g.marker # "COMPLETED" /\ g.path \in DashboardRoutes THEN Redirect("/setup")
  ELSE IF g.marker = "COMPLETED" /\ g.path = "/setup" THEN Redirect("/dashboard")
  ELSE RenderOutlet

C4_Effective == IF jwtArg # Null /\ jwtArg # <<>> THEN jwtArg ELSE localStorage[TOKEN_KEY]

\* The exp claim, in seconds, of the well-formed sample tokens.
C4_ExpSeconds(tok) == IF tok = TokenA THEN 1 ELSE IF tok = TokenB THEN 5 ELSE 0

\* C4: isTokenExpired returns true for a token whose exp (seconds) is earlier
\* than the current time, false for one whose exp is later, true for every
\* malformed token (wrong number of segments, undecodable payload, payload
\* without exp) and true when no token is supplied or stored.
C4_IsTokenExpired ==
  jwtCalled =>
    /\ (C4_Effective = Null => jwtResult)
    /\ (C4_Effective \in MalformedTokens => jwtResult)
    /\ (C4_Effective \in WellFormedTokens =>
          /\ (C4_ExpSeconds(C4_Effective) * 1000 < now => jwtResult)
          /\ (C4_ExpSeconds(C4_Effective) * 1000 > now => ~jwtResult))

\* A call without an argument found a stored token whose exp is later than
\* the current time and returned false.
C4_Witness ==
  /\ jwtCalled
  /\ jwtArg = Null
  /\ localStorage[TOKEN_KEY] = TokenB
  /\ now = MaxNow - (MaxNow % TickMs)
  /\ ~jwtResult

\* The working hours a draft is restored with.
C5_RestoredHours(saved) ==
  IF \A day \in DOMAIN saved.workingHours :
        day = "sunday" \/ ~saved.workingHours[day].isActive
  THEN defaultWorkingHours
  ELSE saved.workingHours

\* C5: after the wizard has saved its state (step and fields), unmounting and
\* mounting it again restores the same current step and the same field
\* values, except that cached working hours with every non-Sunday day inactive
\* are replaced by the default schedule.
C5_DraftRoundTrip ==
  [][MountWizard /\ draft.present =>
       /\ wizard'.currentStep = draft.json.currentStep
       /\ wizard'.data.clinic = draft.json.clinic
       /\ wizard'.data.doctor = draft.json.doctor
       /\ wizard'.data.consultationTypes = draft.json.consultationTypes
       /\ wizard'.data.workingHours = C5_RestoredHours(draft.json)]_vars

\* What C6 requires of the form at submit time.
C6_AllHold(f) ==
  /\ Len(f.phone) >= 10
  /\ (f.patient.found \/ f.patientName # "")
  /\ f.serviceId # ""
  /\ f.providerName # ""
  /\ f.date # <<>>
  /\ f.time # <<>>
  /\ ~(f.availability.has /\ ~f.availability.available)

\* C6: a submit issues a create request only if the phone has at least 10
\* characters, a name is resolvable, service, provider, date and time are
\* chosen and the last availability check did not return unavailable; then
\* exactly one request is issued, otherwise none and a message is shown.
C6_SubmitGate ==
  [][HandleSubmit =>
       IF C6_AllHold(form)
       THEN /\ Cardinality(creates' \ creates) = 1
            /\ creates \subseteq creates'
            /\ calls'.created = calls.created + 1
       ELSE /\ creates' = creates
            /\ calls'.created = calls.created
            /\ form'.error # ""]_vars

\* A submit of a complete form with an available verdict has issued a
\* request.
C6_Witness ==
  /\ Cardinality(creates) = 1
  /\ calls.created = 1
  /\ form.submitting
  /\ form.availability.has /\ form.availability.available
  /\ \E c \in creates : c.phone = form.phone /\ c.startTime = StartInstant(form.date, form.time)

\* C7: whenever date, time, provider and service are all set, the client has
\* called the availability endpoint for the selected slot and, once the calls
\* are answered, displays the verdict of the call for that slot.
C7_VerdictOfCurrentSlot ==
  (/\ isOpen
   /\ AllSet(form) /\ ServiceFound(form)
   /\ checks = {}
   /\ calls.lastCheck = "verdict")
  => /\ form.availability.has
     /\ calls.verdictFor = CurrentSlot(form)

\* C8: on a verdict available: false the submit control is disabled and at
\* most 3 suggestions are rendered; clicking a suggestion sets date and time
\* so that together they denote that slot's start instant.
C8_SuggestionSetsSlotStart ==
  [][/\ (form.availability.has /\ ~form.availability.available =>
           SubmitDisabled(form) /\ Len(renderedSuggestions(form)) <= 3)
     /\ \A i \in 1..3 :
          HandleSuggestedSlot(i) =>
            StartInstant(form'.date, form'.time) = renderedSuggestions(form)[i]]_vars

\* C9: a submit with a phone of fewer than 10 characters issues no create
\* request and shows "Please enter a valid phone number", whatever the other
\* fields hold.
C9_ShortPhoneBlocked ==
  [][HandleSubmit /\ Len(form.phone) < 10 =>
       /\ creates' = creates
       /\ calls'.created = calls.created
       /\ form'.error = "Please enter a valid phone number"]_vars

\* A 9-character phone was submitted with every other field filled in and an
\* available verdict.
C9_Witness ==
  /\ Len(form.phone) = 9
  /\ form.error = "Please enter a valid phone number"
  /\ form.patient.found
  /\ form.serviceId # "" /\ form.providerName # ""
  /\ form.date # <<>> /\ form.time # <<>>
  /\ form.availability.has /\ form.availability.available
  /\ creates = {}

\* The message C10 requires for a failure.
C10_Message(err) ==
  IF err.serverMessage # "" THEN err.serverMessage
  ELSE IF err.message # "" THEN err.message
  ELSE "Failed to create appointment"

\* The values the user entered.
C10_Entered(f) ==
  <<f.phone, f.patient, f.patientName, f.patientEmail, f.serviceId, f.providerId,
    f.providerName, f.date, f.time, f.availability>>

\* C10: when the create request succeeds the refresh callback is invoked once,
\* the modal is closed and the form reset; when it fails the server's message
\* (else the error's own, else a generic text) is shown, the callback is not
\* invoked, the modal stays open with the entered values and submitting is
\* false again.
C10_CreateOutcome ==
  [][/\ \A c \in creates :
          CreateSucceeds(c) =>
            /\ calls'.onSuccess = calls.onSuccess + 1
            /\ ~isOpen'
            /\ C10_Entered(form') = C10_Entered(InitialForm)
            /\ form'.error = ""
            /\ ~form'.submitting
     /\ \A c \in creates, err \in CreateErrors :
          CreateFails(c, err) =>
            /\ form'.error = C10_Message(err)
            /\ calls'.onSuccess = calls.onSuccess
            /\ isOpen' = isOpen
            /\ C10_Entered(form') = C10_Entered(form)
            /\ ~form'.submitting]_vars

\* A create request failed with a server message, the user submitted again
\* and that request succeeded.
C10_Witness ==
  /\ calls.created = 2
  /\ calls.onSuccess = 1
  /\ creates = {}
  /\ ~isOpen
  /\ form.phone = ""


\* C11: a patient search is issued only after the phone has stayed unchanged
\* for 500 ms (a pending timer is always for the current phone, so a burst of
\* changes yields one search, for the final value) and only for a phone of at
\* least 3 characters; a non-empty result pre-fills name and email from the
\* first match; an empty result leaves no matched patient and an empty name,
\* so a submit asks for the name.
C11_DebouncedSearch ==
  [][/\ (searchTimer.phone # "" => searchTimer.phone = form.phone)
     /\ (SearchTimerFires =>
           /\ searches' = searches \cup {form.phone}
           /\ Len(form.phone) >= 3
           /\ now >= calls.phoneAt + 500)
     /\ \A q \in searches :
          /\ SearchResponds(q, "found") =>
               /\ form'.patient = KnownPatient
               /\ form'.patientName = KnownPatient.name
               /\ form'.patientEmail = KnownPatient.email
          /\ SearchResponds(q, "empty") =>
               /\ ~form'.patient.found
               /\ form'.patientName = ""
               /\ (Len(form'.phone) >= 10 =>
                     validationError(form') = "Please enter patient name for new patient")]_vars

\* After a burst of three phone values without a pause only the last one was
\* searched, and its first match filled in the name.
C11_Witness ==
  /\ form.phone = "9876543210"
  /\ calls.phoneAt = 0
  /\ now >= 500
  /\ searches = {}
  /\ form.patient = KnownPatient
  /\ form.patientName = KnownPatient.name


\* A send request of the mounted panel that is answered in this step.
C12_Answered(r, kind) ==
  /\ r \in chatReqs /\ r.by = "send" /\ r.kind = kind
  /\ r \notin chatReqs'
  /\ chatPanel'.mounted

C12_HasTemp(messages) == \E i \in 1..Len(messages) : messages[i][1] = "temp"

\* C12 as stated: the optimistic message is appended at once; when the send
\* failed exactly that message is removed and sending is false; when the send
\* succeeded, the refetch that follows leaves the list the server returned,
\* so no optimistic message is displayed after it.
C12_ListReplacedAfterSend ==
  [][/\ HandleSend =>
          /\ chatPanel'.messages =
               Append(chatPanel.messages, <<"temp", chatPanel.sent + 1>>)
          /\ chatPanel'.sending
     /\ \A r \in chatReqs : C12_Answered(r, "send") =>
          \/ [r EXCEPT !.kind = "messages"] \in chatReqs'
          \/ /\ chatPanel'.messages =
                  SelectSeq(chatPanel.messages, LAMBDA m : m # <<"temp", r.opt>>)
             /\ ~chatPanel'.sending
     /\ \A r \in chatReqs : C12_Answered(r, "messages") =>
          /\ ~chatPanel'.sending
          /\ chatPanel'.messages \in ServerLists
          /\ ~C12_HasTemp(chatPanel'.messages)]_vars

\* C12, amended: the optimistic message is appended at once and sending is
\* set; when the send failed exactly that message is removed, every other
\* displayed message is kept, no request follows and sending is false; when
\* the send succeeded the list is left alone and a refetch is started, and
\* when that refetch ends sending is false and the list is the server's
\* messages if the refetch succeeded and is unchanged, optimistic message
\* included, if the refetch failed.
C12_SendOutcome ==
  [][/\ HandleSend =>
          /\ chatPanel'.messages =
               Append(chatPanel.messages, <<"temp", chatPanel.sent + 1>>)
          /\ chatPanel'.sending
     /\ \A r \in chatReqs : C12_Answered(r, "send") =>
          \/ /\ [r EXCEPT !.kind = "messages"] \in chatReqs'
             /\ chatPanel'.messages = chatPanel.messages
             /\ chatPanel'.sending = chatPanel.sending
          \/ /\ chatReqs' = chatReqs \ {r}
             /\ chatPanel'.messages =
                  SelectSeq(chatPanel.messages, LAMBDA m : m # <<"temp", r.opt>>)
             /\ ~chatPanel'.sending
     /\ \A r \in chatReqs : C12_Answered(r, "messages") =>
          /\ ~chatPanel'.sending
          /\ \/ chatPanel'.messages \in ServerLists
             \/ chatPanel'.messages = chatPanel.messages]_vars

\* The first send succeeded and its refetch failed, so its optimistic message
\* is still displayed; the second send failed and only its own optimistic
\* message was removed.
C12_Witness ==
  /\ chatPanel.mounted /\ chatPanel.sent = 2 /\ ~chatPanel.sending
  /\ \A r \in chatReqs : r.by # "send"
  /\ \E i \in 1..Len(chatPanel.messages) : chatPanel.messages[i] = <<"temp", 1>>
  /\ \A i \in 1..Len(chatPanel.messages) : chatPanel.messages[i] # <<"temp", 2>>
  /\ Len(chatPanel.messages) = 2



\* The ticks a view's interval has run when none is due: one per full period
\* since the view mounted.
C13_Periodic(view, period) ==
  (view.mounted /\ ~(view.due <= now)) =>
     view.polls = (now - view.mountedAt) \div period

\* The requests a timer starts in this step.
C13_TimerPolls == {r \in chatReqs' \ chatReqs : r.by = "timer"}

\* C13: while mounted the chat list polls once per 3000 ms and the chat
\* panel once per 2000 ms; a timer starts a poll only while its view is
\* mounted, and unmounting clears it; a tick of the panel fetches the chat
\* selected at the time of the tick, whatever was selected when the timer
\* was started.
C13_Polling ==
  [][/\ C13_Periodic(chatList, 3000) /\ C13_Periodic(chatPanel, 2000)
     /\ \A r \in C13_TimerPolls :
          /\ r.kind = "chats" => chatList.mounted /\ chatList.due <= now
          /\ r.kind = "messages" =>
               /\ chatPanel.mounted /\ chatPanel.due <= now
               /\ r.chatId = chatsPage.selectedChatId
     /\ ListTimerFires => \E r \in C13_TimerPolls : r.kind = "chats"
     /\ PanelTimerFires => \E r \in C13_TimerPolls : r.kind = "messages"
     /\ (chatList.mounted /\ ~chatList'.mounted) => chatList'.due = 0
     /\ (chatPanel.mounted /\ ~chatPanel'.mounted) => chatPanel'.due = 0
     /\ ~chatList.mounted => chatList.due = 0
     /\ ~chatPanel.mounted => chatPanel.due = 0]_vars

\* A tick of the panel's timer has asked for the messages of the second
\* chat while the panel still shows the first, for which the timer was
\* started.
C13_Witness ==
  /\ chatPanel.mounted /\ chatPanel.chat = "c1" /\ chatPanel.polls >= 2
  /\ chatsPage.selectedChatId = "c2"
  /\ \E r \in chatReqs : r.by = "timer" /\ r.kind = "messages" /\ r.chatId = "c2"



\* The five values a registration returns are in local storage.
C14_SessionStored ==
  /\ localStorage["token"] = RegisteredSession.token
  /\ localStorage["tenantId"] = RegisteredSession.tenantId
  /\ localStorage["userId"] = RegisteredSession.userId
  /\ localStorage["role"] = RegisteredSession.role
  /\ localStorage["email"] = RegisteredSession.email

C14_NothingStored == \A k \in DOMAIN localStorage : localStorage[k] = Null

C14_InitializeSent == \E q \in rawRequests : q.url = "/api/whatsapp/config/initialize"

\* C14: completing the wizard posts the registration payload; when the
\* registration succeeded the returned session is stored and the
\* messaging-number initialization attempted, and when that attempt ended,
\* failed or not, the draft is cleared and the success screen shown; when the
\* registration failed no session is stored, no initialization is attempted,
\* the draft is kept and an error is shown.
C14_CompletionSequence ==
  [][/\ (completion.phase = "idle" /\ completion'.phase = "registering") =>
          /\ C14_NothingStored' /\ draft' = draft /\ ~completion'.isComplete
          /\ \E q \in rawRequests' :
               /\ q.url = "/api/auth/register-tenant"
               /\ q.payload.clinicName = wizard.data.clinic.name
               /\ q.payload.email = wizard.data.clinic.email
               /\ q.payload.workingHours = wizard.data.workingHours
          /\ ~C14_InitializeSent'
     /\ (completion.phase = "registering" /\ completion'.phase = "initializing") =>
          /\ C14_NothingStored /\ C14_SessionStored'
          /\ C14_InitializeSent'
          /\ draft' = draft /\ draft.present /\ ~completion'.isComplete
     /\ (completion.phase = "initializing" /\ completion'.phase # "initializing") =>
          /\ C14_SessionStored'
          /\ ~draft'.present
          /\ completion'.isComplete /\ completion'.error = ""
     /\ (completion.phase = "registering" /\ completion'.phase # "initializing") =>
          /\ C14_NothingStored'
          /\ ~C14_InitializeSent'
          /\ draft' = draft /\ draft.present
          /\ completion'.error # "" /\ ~completion'.isComplete
          /\ ~completion'.isSubmitting
     /\ completion'.isComplete => (completion.isComplete \/ completion.phase = "initializing")
     /\ C14_InitializeSent' => (C14_InitializeSent \/ completion.phase = "registering")]_vars

\* The wizard completed: the session is stored, the draft cleared and the
\* success screen shown.
C14_Witness ==
  /\ completion.isComplete /\ completion.phase = "done"
  /\ C14_SessionStored
  /\ ~draft.present
  /\ rawRequests = {}



\* C17: every request made with a session carries Authorization: Bearer
\* <token> and X-Tenant-ID: <tenantId>: the requests of the shared client,
\* whose interceptor attaches them from the session store, and the request
\* the onboarding wizard makes after registration returned a session.
C17_BothHeaders ==
  /\ \A r \in inflight :
       r.stored # Null =>
          /\ r.auth = <<"B", "e", "a", "r", "e", "r", " ">> \o r.stored
          /\ r.tenant # Null
  /\ \A q \in rawRequests :
       q.url # "/api/auth/register-tenant" =>
          /\ q.auth = <<"B", "e", "a", "r", "e", "r", " ">> \o localStorage["token"]
          /\ q.tenant = localStorage["tenantId"]



\* Every cached day other than Sunday is inactive.
C15_InactiveExceptSunday(hours) ==
  \A d \in (DOMAIN hours) \ {"sunday"} : ~hours[d].isActive

\* What the claim says of a draft that parsed to cached: the hours returned
\* and the stored item left alone.
C15_Parsed(cached) ==
  /\ draft' = draft
  /\ \A k \in (DOMAIN cached) \ {"workingHours"} : loaded'.data[k] = cached[k]
  /\ IF "workingHours" \notin DOMAIN cached
     THEN loaded'.data.workingHours = defaultWorkingHours
     ELSE IF C15_InactiveExceptSunday(cached.workingHours)
     THEN loaded'.data.workingHours = defaultWorkingHours
     ELSE \A d \in Days :
            loaded'.data.workingHours[d] =
               IF d \in DOMAIN cached.workingHours THEN cached.workingHours[d]
               ELSE defaultWorkingHours[d]

C15_Defaults ==
  /\ loaded'.data.workingHours = defaultWorkingHours
  /\ loaded'.data.clinic.name = "" /\ loaded'.data.doctor.name = ""
  /\ loaded'.data.consultationTypes = <<>> /\ loaded'.data.currentStep = 1

C16_NoSession(ls) == ls["waas_token"] = Null /\ ls["waas_tenant"] = Null

C16_SameSession ==
  /\ localStorage'["waas_token"] = localStorage["waas_token"]
  /\ localStorage'["waas_tenant"] = localStorage["waas_tenant"]

\* C16: the stored session changes only by a successful login, which stores
\* the token and the tenant id, and by logout and a 401 response, which
\* remove both; a failed login stores nothing; without a stored token
\* isAuthenticated() is false and the guard sends every protected route to
\* /login.
C16_SessionLifecycle ==
  [][/\ ~C16_SameSession =>
          \/ /\ \E r \in inflight \ inflight' : r.kind = "login"
             /\ localStorage'["waas_token"] \in IssuedTokens
             /\ localStorage'["waas_tenant"] \in TenantIds
          \/ /\ C16_NoSession(localStorage')
             /\ \/ inflight' # inflight
                \/ navTarget' = "/"
     /\ Logout => C16_NoSession(localStorage')
     /\ \A r \in inflight \ inflight', tok \in IssuedTokens, tid \in TenantIds :
          /\ ReceiveResponse(r, 401, tok, tid) => C16_NoSession(localStorage')
          /\ \A outcome \in {403, 500, 0} :
               ReceiveResponse(r, outcome, tok, tid) => C16_SameSession
          /\ ReceiveResponse(r, 200, tok, tid) =>
               IF r.kind = "login"
               THEN /\ localStorage'["waas_token"] = tok
                    /\ localStorage'["waas_tenant"] = tid
               ELSE C16_SameSession
     /\ localStorage["waas_token"] = Null =>
          /\ ~isAuthenticated(localStorage)
          /\ \A path \in ProtectedPaths, marker \in OnboardingStatuses :
               ProtectedRoute(localStorage, now, marker, path) = Redirect("/login")]_vars

\* A guard let a protected route render with a stored token; a 401 response
\* then removed the token and the tenant id and started the way to /login.
C16_Witness ==
  /\ lastGuard.outcome = RenderOutlet /\ lastGuard.token # Null
  /\ rendered = lastGuard.path
  /\ C16_NoSession(localStorage)
  /\ navTarget = "/login"

\* C18: a 401 response that arrives while the location is /login clears the
\* token and the tenant id, starts no navigation and leaves the location
\* alone, and the caller's promise is rejected, so a login caller stores
\* nothing and stays on the page.
C18_UnauthorizedOnLogin ==
  [][\A r \in inflight \ inflight', tok \in IssuedTokens, tid \in TenantIds :
       (pathname = "/login" /\ ReceiveResponse(r, 401, tok, tid)) =>
          /\ C16_NoSession(localStorage')
          /\ navTarget' = navTarget /\ hrefAssignments' = hrefAssignments
          /\ pathname' = "/login" /\ rendered' = rendered
          /\ responseInterceptor(401).rejected]_vars

\* On /login, with a request still in flight that was sent while a token was
\* stored, the token and the tenant id are gone and no navigation was
\* started: a 401 was answered on this page.
C18_Witness ==
  /\ pathname = "/login" /\ rendered = "/login"
  /\ navTarget = "none" /\ hrefAssignments = 0
  /\ C16_NoSession(localStorage)
  /\ \E r \in inflight : r.stored # Null /\ r.kind = "login"

\* C19: a failed response other than 401, and a failure without a response,
\* leave the token, the tenant id and the location unchanged; every failed
\* response, 401 included, rejects the caller's promise, so no caller takes
\* its success path; answering a request never puts another in flight.
C19_OnlyUnauthorizedIsGlobal ==
  [][\A r \in inflight \ inflight', tok \in IssuedTokens, tid \in TenantIds,
        outcome \in Outcomes :
       ReceiveResponse(r, outcome, tok, tid) =>
          /\ outcome \notin {200, 401} =>
               /\ localStorage' = localStorage
               /\ pathname' = pathname /\ navTarget' = navTarget
               /\ hrefAssignments' = hrefAssignments
          /\ outcome # 200 =>
               /\ responseInterceptor(outcome).rejected
               /\ pathname' = pathname /\ rendered' = rendered
               /\ localStorage'["waas_token"] \in {localStorage["waas_token"], Null}
          /\ inflight' = inflight \ {r}
          /\ issued' <= issued]_vars

\* A request of a protected screen was answered and the session, the
\* location and the rendered screen are as before.
C19_Witness ==
  /\ rendered \in ProtectedPaths /\ pathname = rendered
  /\ issued = MaxRequests /\ Cardinality(inflight) < MaxRequests
  /\ ~C16_NoSession(localStorage)
  /\ navTarget = "none" /\ hrefAssignments = 0



\* What the middle segment of a token says, read by hand: the JSON value it
\* encodes, or null when it is no base64, no UTF-8 text or no JSON.
C20_Content(segment) ==
  IF segment = <<"e","y","J","l","e","H","A","i","O","j","F","9">>
  THEN [t |-> "obj", f |-> [k \in {"exp"} |-> 1]]
  ELSE IF segment = <<"e","y","J","l","e","H","A","i","O","j","V","9">>
  THEN [t |-> "obj", f |-> [k \in {"exp"} |-> 5]]
  ELSE IF segment = <<"e","y","J","l","e","H","A","i","O","j","B","9">>
  THEN [t |-> "obj", f |-> [k \in {"exp"} |-> 0]]
  ELSE IF segment = <<"e","y","J","z","d","W","I","i","O","j","F","9">>
  THEN [t |-> "obj", f |-> [k \in {"sub"} |-> 1]]
  ELSE IF segment \in {<<"e","3","0">>, <<"e","3","0","=">>}
  THEN [t |-> "obj", f |-> <<>>]
  ELSE IF segment = <<"N","w">>
  THEN [t |-> "num", n |-> 7]
  ELSE [t |-> "null"]

C20_Dots(token) == Cardinality({i \in 1..Len(token) : token[i] = "."})

\* C20: parseJwt returns null for a text that is not three segments
\* separated by '.', and for a token whose middle segment is no base64(url),
\* no UTF-8 text or no JSON; for any other token it returns what the middle
\* segment encodes, whatever the header and the signature segment are.
C20_ParseJwtFailsClosed ==
  jwtCalled =>
     /\ jwtResult.t \in {"null", "num", "obj"}
     /\ C20_Dots(jwtArg) # 2 => jwtResult = [t |-> "null"]
     /\ \A h \in HeaderSegments, pl \in PayloadSegments, sig \in SignatureSegments :
          jwtArg = h \o <<".">> \o pl \o <<".">> \o sig =>
             jwtResult = C20_Content(pl)

\* parseJwt has returned the content of a token whose signature segment is
\* not a signature.
C20_Witness ==
  /\ jwtCalled
  /\ jwtArg = <<"h", ".">> \o <<"e","y","J","l","e","H","A","i","O","j","V","9">>
                \o <<".", "f","o","r","g","e","d">>
  /\ jwtResult = [t |-> "obj", f |-> [k \in {"exp"} |-> 5]]



\* C21: the only local-storage keys the client has written are the token
\* key and the tenant-id key of the session store and the key of the
\* onboarding draft, which is held in draft: every other key is absent.
C21_ThreeKeysOnly ==
  \A k \in DOMAIN localStorage :
     k \notin {"waas_token", "waas_tenant"} => localStorage[k] = Null

(***************************************************************************)
(* StaffManagementTab: the staff list, its loads and the handlers that     *)
(* reload it.                                                              *)
(***************************************************************************)

MaxStaffRequests == 4

\* What GET /staff can answer with: no member, one member, two members.
StaffLists == {<<>>, <<"s1">>, <<"s1", "s2">>}

FrameStaff == UNCHANGED <<sessionVars, jwtVars, modalVars, wizardVars, chatVars,
                          availModal, serverAvailability, verifyModal>>

\* The staff-list part of the render: the spinner, the empty state with the
\* "Add your first staff member" button, or one row per member.
staffView(tab) ==
  IF tab.loading THEN "loading"
  ELSE IF Len(tab.staff) = 0 THEN "empty"
  ELSE "list"

staffRows(tab) == IF staffView(tab) = "list" THEN tab.staff ELSE <<>>

staffRequest(tab, kind) == [id |-> tab.issued + 1, kind |-> kind]

\* loadStaff up to its await: setLoading(true) and the GET is sent.
loadStaffStarts(tab) == [tab EXCEPT !.loading = TRUE, !.issued = @ + 1]

\* useEffect(() => { loadStaff(); }, [])
MountStaffTab ==
  /\ ~staffTab.mounted
  /\ staffTab' = loadStaffStarts([StaffUnmounted EXCEPT !.mounted = TRUE])
  /\ staffReqs' = staffReqs \cup {staffRequest(staffTab, "list")}
  /\ FrameStaff

\* loadStaff after its await: the list is stored, or the error is, and in
\* both cases finally sets loading to false.
LoadStaffResponds(r, ok, list) ==
  /\ r \in staffReqs /\ r.kind = "list"
  /\ staffReqs' = staffReqs \ {r}
  /\ staffTab' = IF ok
                 THEN [staffTab EXCEPT !.staff = list, !.loading = FALSE]
                 ELSE [staffTab EXCEPT !.error = "Failed to load staff members",
                                       !.loading = FALSE]
  /\ FrameStaff

\* handleSubmit up to its await: the header's "Add Staff Member" form (or the
\* empty state's button) is submitted and createStaff is sent.
HandleSubmitStaff ==
  /\ staffTab.mounted
  /\ staffTab.issued + 2 <= MaxStaffRequests
  /\ staffTab' = [staffTab EXCEPT !.error = "", !.success = "", !.issued = @ + 1]
  /\ staffReqs' = staffReqs \cup {staffRequest(staffTab, "create")}
  /\ FrameStaff

\* handleDeactivate up to its await: the button of a displayed row, confirmed.
HandleDeactivate(id) ==
  /\ staffTab.mounted
  /\ \E i \in 1..Len(staffRows(staffTab)) : staffRows(staffTab)[i] = id
  /\ staffTab.issued + 2 <= MaxStaffRequests
  /\ staffTab' = [staffTab EXCEPT !.issued = @ + 1]
  /\ staffReqs' = staffReqs \cup {staffRequest(staffTab, "deactivate")}
  /\ FrameStaff

\* handleSubmit and handleDeactivate after their await: on success the
\* message is set and loadStaff is called, on failure the error is set.
ChangeStaffResponds(r, ok) ==
  /\ r \in staffReqs /\ r.kind \in {"create", "deactivate"}
  /\ IF ok
     THEN /\ staffTab' = loadStaffStarts(
                 [staffTab EXCEPT !.success =
                     IF r.kind = "create" THEN "Staff member added successfully"
                     ELSE "Staff member deactivated"])
          /\ staffReqs' = (staffReqs \ {r}) \cup {staffRequest(staffTab, "list")}
     ELSE /\ staffTab' = [staffTab EXCEPT !.error =
                     IF r.kind = "create" THEN "Failed to save staff member"
                     ELSE "Failed to deactivate staff member"]
          /\ staffReqs' = staffReqs \ {r}
  /\ FrameStaff

NextStaff ==
  \/ MountStaffTab
  \/ \E r \in staffReqs, ok \in BOOLEAN, list \in StaffLists :
        LoadStaffResponds(r, ok, list)
  \/ HandleSubmitStaff
  \/ \E id \in {"s1", "s2"} : HandleDeactivate(id)
  \/ \E r \in staffReqs, ok \in BOOLEAN : ChangeStaffResponds(r, ok)

SpecStaff == Init /\ [][NextStaff]_vars

\* A load of the staff list is in progress: its GET has no answer yet.
StaffLoadInProgress == \E r \in staffReqs : r.kind = "list"

\* C22: while a load of the staff list is in progress the loading indicator
\* is shown, and neither the empty state nor the staff rows are.
C22_LoadingWhileInProgress ==
  StaffLoadInProgress => staffView(staffTab) = "loading"

\* C22 (rest): once no load is in progress and the last load answered without
\* error, no member gives the empty state and no rows, members give the list.
C22_EmptyOrList ==
  (staffTab.mounted /\ ~StaffLoadInProgress) =>
     /\ staffView(staffTab) # "loading"
     /\ Len(staffTab.staff) = 0 => (staffView(staffTab) = "empty" /\ staffRows(staffTab) = <<>>)
     /\ Len(staffTab.staff) > 0 => staffRows(staffTab) = staffTab.staff

(***************************************************************************)
(* The booking modal from picking a slot to submitting it.                 *)
(***************************************************************************)

\* The modal open with its lists loaded and a known patient found for the
\* typed phone number; no slot field is set yet.
InitBook ==
  /\ InitSession /\ JwtIdle /\ InitWizard /\ InitChat /\ InitTabs
  /\ form = [InitialForm EXCEPT
               !.services = ServiceList, !.providers = ProviderList,
               !.phone = "9876543210", !.patient = KnownPatient,
               !.patientName = KnownPatient.name, !.patientEmail = KnownPatient.email]
  /\ isOpen = TRUE
  /\ tzOffset = IST_OFFSET_MIN
  /\ loads = {}
  /\ searchTimer = NoTimer
  /\ searches = {}
  /\ checks = {}
  /\ creates = {}
  /\ calls = [created |-> 0, onSuccess |-> 0, verdictFor |-> NoSlot,
              lastCheck |-> "none", phoneAt |-> 0]

NextBook ==
  \/ \E v \in {"", "s1"} : SetService(v)
  \/ \E v \in {"", "Dr A"} : SetProvider(v)
  \/ \E v \in Dates : SetDate(v)
  \/ \E v \in Times : SetTime(v)
  \/ \E c \in checks, verdict \in {v \in Verdicts : v.suggestions = <<>>}, ok \in BOOLEAN :
        CheckResponds(c, verdict, ok)
  \/ HandleSubmit
  \/ \E c \in creates : CreateSucceeds(c)

SpecBook == InitBook /\ [][NextBook]_vars

\* C23: whenever handleSubmit reaches its availability gate with a verdict
\* stored (and then either issues the create request or refuses with the
\* not-available message), that verdict was produced by a check for the slot
\* that is selected at the submit.
C23_GateOfCurrentSlot ==
  [][(/\ HandleSubmit
      /\ validationErrorNoVerdict(form) = ""
      /\ form.availability.has)
     => calls.verdictFor = CurrentSlot(form)]_vars

(***************************************************************************)
(* The chat panel with one chat open: its poll and its sends together.     *)
(***************************************************************************)

NextChatting ==
  \/ MountChats
  \/ SelectChat("c1")
  \/ PollClockTick
  \/ ListTimerFires
  \/ PanelTimerFires
  \/ \E r \in chatReqs : ChatsRespond(r)
  \/ \E r \in chatReqs, ok \in BOOLEAN, list \in ServerLists : MessagesRespond(r, ok, list)
  \/ TypeMessage("hi")
  \/ HandleSend
  \/ \E r \in chatReqs, ok \in BOOLEAN : SendResponds(r, ok)

SpecChatting == Init /\ [][NextChatting]_vars

\* The POST of a send has no answer yet.
SendInFlight(n) == \E r \in chatReqs : r.kind = "send" /\ r.opt = n

Displayed(m) == \E i \in 1..Len(chatPanel.messages) : chatPanel.messages[i] = m

\* C24: while the POST of a send is in flight its optimistic message is in
\* the displayed list.
C24_OptimisticStays ==
  \A n \in 1..MaxSends : SendInFlight(n) => Displayed(optimisticId(n))

\* C25: the chat whose header and messages are displayed changes only to the
\* chat that is selected: an answer that belongs to a previously selected
\* chat is not applied once another chat is selected.
C25_OnlySelectedChatApplied ==
  [][(chatPanel'.mounted /\ chatPanel'.chat # chatPanel.chat)
     => chatPanel'.chat = chatsPage'.selectedChatId]_vars

\* C26: once a successful registration has stored its session, the session
\* store reads that session: getToken() returns the issued token,
\* isAuthenticated() is true, the route guard does not redirect /setup or
\* /dashboard to /login, and the shared client's requests carry the token.
C26_StoredSessionIsRead ==
  localStorage["token"] = RegisteredSession.token =>
     /\ getToken(localStorage) = RegisteredSession.token
     /\ isAuthenticated(localStorage)
     /\ \A p \in {"/setup", "/dashboard"} :
           ProtectedRoute(localStorage, now, onboardingStatus, p) # Redirect(LOGIN_PATH)
     /\ requestInterceptor(localStorage).auth = BearerPrefix \o RegisteredSession.token

(***************************************************************************)
(* ProviderAvailabilityModal: the weekly schedule of one provider, loaded  *)
(* from the server, edited, and saved by deleting every loaded slot and    *)
(* creating the edited ones.                                               *)
(***************************************************************************)

MaxSaves == 2

MaxSlotsPerDay == 1

MSG_LOAD_AVAILABILITY == "Failed to load availability"

MSG_SAVE_AVAILABILITY == "Failed to save availability"

FrameAvailability == UNCHANGED <<sessionVars, jwtVars, modalVars, wizardVars, chatVars,
                                 staffTab, staffReqs, verifyModal>>

\* loadAvailability's grouping of the loaded slots by day of week: the
\* number of slots of each day.
groupByDay(slots) ==
  [d \in EditedDays |-> Cardinality({s \in slots : s.day = d})]

\* handleSave's newSlots: one request entry per slot of every day.
newSlots(schedules) ==
  {e \in [day : EditedDays, n : 1..MaxSlotsPerDay] : e.n <= schedules[e.day]}

\* The slots the server holds after a bulk create issued by the k-th save.
created(entries, k) == {[id |-> <<k, e.day, e.n>>, day |-> e.day] : e \in entries}

\* The availability button of a provider row: the modal is mounted open and
\* its effect calls loadAvailability.
OpenAvailability ==
  /\ ~availModal.isOpen
  /\ availModal.pending = {}
  /\ availModal' = [AvailabilityClosed EXCEPT !.isOpen = TRUE, !.phase = "loading",
                                              !.saves = availModal.saves]
  /\ UNCHANGED serverAvailability
  /\ FrameAvailability

\* getProviderAvailability answers.
LoadAvailabilityResponds(ok) ==
  /\ availModal.isOpen /\ availModal.phase = "loading"
  /\ availModal' =
       IF ok
       THEN [availModal EXCEPT !.availability = serverAvailability,
                               !.daySchedules = groupByDay(serverAvailability),
                               !.loading = FALSE, !.phase = "idle"]
       ELSE [availModal EXCEPT !.error = MSG_LOAD_AVAILABILITY,
                               !.loading = FALSE, !.phase = "idle"]
  /\ UNCHANGED serverAvailability
  /\ FrameAvailability

addTimeSlot(dayOfWeek) ==
  /\ availModal.isOpen /\ ~availModal.loading /\ ~availModal.saving
  /\ availModal.daySchedules[dayOfWeek] < MaxSlotsPerDay
  /\ availModal' = [availModal EXCEPT
                      !.daySchedules = [availModal.daySchedules EXCEPT ![dayOfWeek] = @ + 1]]
  /\ UNCHANGED serverAvailability
  /\ FrameAvailability

removeTimeSlot(dayOfWeek) ==
  /\ availModal.isOpen /\ ~availModal.loading /\ ~availModal.saving
  /\ availModal.daySchedules[dayOfWeek] > 0
  /\ availModal' = [availModal EXCEPT
                      !.daySchedules = [availModal.daySchedules EXCEPT ![dayOfWeek] = @ - 1]]
  /\ UNCHANGED serverAvailability
  /\ FrameAvailability

\* handleSave up to await Promise.all(deletePromises): one DELETE per loaded
\* slot is sent.  before remembers what the server held at that moment.
HandleSave ==
  /\ availModal.isOpen /\ ~availModal.saving /\ ~availModal.loading
  /\ availModal.pending = {}
  /\ availModal.saves < MaxSaves
  /\ availModal' = [availModal EXCEPT
                      !.saving = TRUE, !.error = "", !.phase = "deleting",
                      !.pending = {s.id : s \in availModal.availability},
                      !.failed = FALSE,
                      !.before = serverAvailability,
                      !.saves = @ + 1]
  /\ UNCHANGED serverAvailability
  /\ FrameAvailability

\* One DELETE is answered.  The first failure rejects Promise.all: the catch
\* block shows the error and finally resets saving, while the other DELETEs
\* stay in flight.
DeleteResponds(id, ok) ==
  /\ id \in availModal.pending
  /\ serverAvailability' = IF ok THEN {s \in serverAvailability : s.id # id}
                           ELSE serverAvailability
  /\ availModal' =
       IF ok \/ availModal.failed
       THEN [availModal EXCEPT !.pending = @ \ {id}]
       ELSE [availModal EXCEPT !.pending = @ \ {id}, !.failed = TRUE,
                               !.error = MSG_SAVE_AVAILABILITY,
                               !.saving = FALSE, !.phase = "idle"]
  /\ FrameAvailability

\* Promise.all resolved: the bulk create is sent when there is a slot to
\* create; otherwise onClose() unmounts the modal.
DeletesResolved ==
  /\ availModal.phase = "deleting" /\ availModal.pending = {} /\ ~availModal.failed
  /\ availModal' =
       IF newSlots(availModal.daySchedules) # {}
       THEN [availModal EXCEPT !.phase = "creating"]
       ELSE [AvailabilityClosed EXCEPT !.saves = availModal.saves,
                                       !.before = availModal.before]
  /\ UNCHANGED serverAvailability
  /\ FrameAvailability

\* bulkCreateAvailability answers: onClose() on success, the error otherwise.
CreateResponds(ok) ==
  /\ availModal.phase = "creating"
  /\ IF ok
     THEN /\ serverAvailability' =
               serverAvailability \cup
               created(newSlots(availModal.daySchedules), availModal.saves)
          /\ availModal' = [AvailabilityClosed EXCEPT !.saves = availModal.saves,
                                                      !.before = availModal.before]
     ELSE /\ availModal' = [availModal EXCEPT !.error = MSG_SAVE_AVAILABILITY,
                                              !.saving = FALSE, !.phase = "idle"]
          /\ UNCHANGED serverAvailability
  /\ FrameAvailability

\* The X button in the header, or Cancel.
CloseAvailability ==
  /\ availModal.isOpen /\ ~availModal.saving /\ availModal.phase = "idle"
  /\ availModal' = [AvailabilityClosed EXCEPT !.saves = availModal.saves,
                                              !.pending = availModal.pending]
  /\ UNCHANGED serverAvailability
  /\ FrameAvailability

NextAvailability ==
  \/ OpenAvailability
  \/ \E ok \in BOOLEAN : LoadAvailabilityResponds(ok)
  \/ \E d \in EditedDays : addTimeSlot(d)
  \/ \E d \in EditedDays : removeTimeSlot(d)
  \/ HandleSave
  \/ \E id \in availModal.pending, ok \in BOOLEAN : DeleteResponds(id, ok)
  \/ DeletesResolved
  \/ \E ok \in BOOLEAN : CreateResponds(ok)
  \/ CloseAvailability

SpecAvailability == Init /\ [][NextAvailability]_vars

\* C27: when a save has failed (the error is shown and every request of the
\* save is answered) the server holds the availability it held before.
C27_AllOrNothing ==
  (/\ availModal.isOpen
   /\ availModal.error = MSG_SAVE_AVAILABILITY
   /\ ~availModal.saving
   /\ availModal.pending = {})
  => serverAvailability = availModal.before

(***************************************************************************)
(* The wizard's last step with its navigation: Next, Back, Complete Setup. *)
(***************************************************************************)

NextSteps ==
  \/ HandleComplete
  \/ \E ok \in BOOLEAN, err \in RegistrationErrors : RegisterResponds(ok, err)
  \/ \E ok \in BOOLEAN : InitializeResponds(ok)
  \/ nextStep
  \/ prevStep

SpecSteps == InitComplete /\ [][NextSteps]_vars

C28_RegistrationSent ==
  \E q \in rawRequests' \ rawRequests : q.url = "/api/auth/register-tenant"

\* The step the claim names for the first failing check, 0 when none fails.
C28_StepOfFirstFailure(data) ==
  IF data.clinic.name = "" \/ data.clinic.email = "" \/ data.clinic.password = "" THEN 1
  ELSE IF data.clinic.password # data.clinic.confirmPassword THEN 1
  ELSE IF data.doctor.name = "" \/ data.doctor.qualifications = "" THEN 2
  ELSE IF data.consultationTypes = <<>> THEN 3
  ELSE 0

\* C28: a registration request is issued only for a form that passes every
\* check; Complete Setup on a form that fails one sends nothing, moves the
\* wizard to the step of the first failing check, shows an error and leaves
\* submitting false; and the current step stays within 1..6 under Next, Back
\* and Complete Setup.
C28_ValidatedRegistration ==
  [][/\ C28_RegistrationSent => C28_StepOfFirstFailure(wizard.data) = 0
     /\ (HandleComplete /\ C28_StepOfFirstFailure(wizard.data) # 0) =>
          /\ rawRequests' = rawRequests
          /\ wizard'.currentStep = C28_StepOfFirstFailure(wizard.data)
          /\ completion'.error # ""
          /\ ~completion'.isSubmitting
     /\ (HandleComplete /\ C28_StepOfFirstFailure(wizard.data) = 0) =>
          C28_RegistrationSent
     /\ wizard'.currentStep \in FIRST_STEP..LAST_STEP]_vars

\* Complete Setup was refused for the missing consultation type: the wizard
\* is back on step 3 with the error and nothing was sent.
C28_Witness ==
  /\ wizard.currentStep = 3
  /\ completion.error = "Please add at least one consultation type in Step 3"
  /\ ~completion.isSubmitting
  /\ rawRequests = {}

(***************************************************************************)
(* EmailVerificationModal: the countdown of the code's lifetime, the       *)
(* resend delay and the resend button.  Time is counted in seconds.        *)
(***************************************************************************)

MaxResends == 2

MSG_CODE_SENT == "New code sent to your email!"

MSG_RESEND_FAILED == "Failed to resend code"

FrameVerification == UNCHANGED <<sessionVars, jwtVars, modalVars, wizardVars, chatVars,
                                 staffTab, staffReqs, availModal, serverAvailability>>

\* disabled={!canResend || isResending || isVerifying}; no verification is
\* running here.
ResendDisabled(m) == ~m.canResend \/ m.isResending

\* isOpen becomes true: the two effects set the interval and the timeout.
OpenVerification ==
  /\ ~verifyModal.isOpen
  /\ verifyModal' = [verifyModal EXCEPT !.isOpen = TRUE, !.interval = TRUE,
                                        !.resendTimer = TRUE, !.elapsed = 0,
                                        !.due = FALSE]
  /\ FrameVerification

ResendTimerDue(m) == m.resendTimer /\ m.elapsed >= RESEND_DELAY_S

\* One second passes while a timer is set; a callback that is due runs first.
VerifyClockTick ==
  /\ verifyModal.isOpen
  /\ verifyModal.interval \/ verifyModal.resendTimer
  /\ ~verifyModal.due /\ ~ResendTimerDue(verifyModal)
  /\ verifyModal' = [verifyModal EXCEPT
                       !.elapsed = IF verifyModal.resendTimer THEN @ + 1 ELSE @,
                       !.due = verifyModal.interval]
  /\ FrameVerification

\* The interval's callback: at prev <= 1 it clears the interval, enables the
\* resend and sets 0; otherwise it counts down.
CountdownFires ==
  /\ verifyModal.interval /\ verifyModal.due
  /\ verifyModal' =
       IF verifyModal.timeLeft <= 1
       THEN [verifyModal EXCEPT !.timeLeft = 0, !.canResend = TRUE,
                                !.interval = FALSE, !.due = FALSE]
       ELSE [verifyModal EXCEPT !.timeLeft = @ - 1, !.due = FALSE]
  /\ FrameVerification

\* The timeout's callback, 60 s after the modal opened.
ResendTimerFires ==
  /\ ResendTimerDue(verifyModal)
  /\ verifyModal' = [verifyModal EXCEPT !.canResend = TRUE, !.resendTimer = FALSE]
  /\ FrameVerification

\* handleResend up to its await.
HandleResend ==
  /\ verifyModal.isOpen /\ ~ResendDisabled(verifyModal)
  /\ verifyModal.resends < MaxResends
  /\ verifyModal' = [verifyModal EXCEPT !.isResending = TRUE, !.error = "",
                                        !.resends = @ + 1]
  /\ FrameVerification

\* The resend request is answered.
ResendResponds(ok) ==
  /\ verifyModal.isResending
  /\ verifyModal' =
       IF ok
       THEN [verifyModal EXCEPT !.timeLeft = CODE_LIFETIME_S, !.canResend = FALSE,
                                !.error = MSG_CODE_SENT, !.isResending = FALSE]
       ELSE [verifyModal EXCEPT !.error = MSG_RESEND_FAILED, !.isResending = FALSE]
  /\ FrameVerification

NextVerification ==
  \/ OpenVerification
  \/ VerifyClockTick
  \/ CountdownFires
  \/ ResendTimerFires
  \/ HandleResend
  \/ \E ok \in BOOLEAN : ResendResponds(ok)

SpecVerification == Init /\ [][NextVerification]_vars

\* Time passes, the timers that are set fire, and requests are answered.
SpecVerificationLive ==
  /\ SpecVerification
  /\ WF_vars(VerifyClockTick) /\ WF_vars(CountdownFires) /\ WF_vars(ResendTimerFires)
  /\ WF_vars(\E ok \in BOOLEAN : ResendResponds(ok))

\* C29 (safety part): the resend is enabled only once 60 s have passed since
\* the modal opened or the countdown is at 0.
C29_ResendNotEarly ==
  (verifyModal.isOpen /\ ~ResendDisabled(verifyModal)) =>
     (verifyModal.elapsed >= RESEND_DELAY_S \/ verifyModal.timeLeft = 0)

\* C29: whenever the resend is disabled in the open modal, it eventually
\* becomes enabled again, also after a successful resend that happened when
\* the countdown had reached 0.
C29_ResendEnabledAgain ==
  (verifyModal.isOpen /\ ~verifyModal.canResend) ~> verifyModal.canResend

(***************************************************************************)
(* App.tsx: the route table, and the redirects the router follows from a   *)
(* starting path until a screen is rendered.                               *)
(***************************************************************************)

MaxFollowed == 4

\* The paths of the routes nested under <ProtectedRoute/> in App.tsx.
AppGuardedPaths == {"/", "/chats", "/customers", "/services", "/settings"}

\* Every path the guard or a route names, and one that no route matches.
StartPaths == Paths \cup AppGuardedPaths \cup {"/nowhere"}

RenderScreen == [kind |-> "render", to |-> "screen"]

AppRouteCatchAllToSetup(guarded, ls, t, marker, path) ==
  IF path = LOGIN_PATH THEN RenderScreen
  ELSE IF path \in guarded THEN ProtectedRoute(ls, t, marker, path)
  ELSE Redirect("/setup")

\* <Routes>: /login renders the login page, a path of a nested route is
\* given to the guard, and the catch-all route redirects to "/".
AppRoute(guarded, ls, t, marker, path) ==
  IF path = LOGIN_PATH THEN RenderScreen
  ELSE IF path \in guarded THEN ProtectedRoute(ls, t, marker, path)
  ELSE Redirect("/")

RECURSIVE redirectsFrom(_, _, _, _, _, _)

\* The number of redirects the router follows from path until a screen is
\* rendered, counted up to left + 1.
redirectsFrom(guarded, ls, t, marker, path, left) ==
  LET r == AppRoute(guarded, ls, t, marker, path)
  IN  IF r.kind = "render" THEN 0
      ELSE IF left = 0 THEN 1
      ELSE 1 + redirectsFrom(guarded, ls, t, marker, r.to, left - 1)

\* A page load of any path in any session state: no token, a token that is
\* or becomes expired, a valid token; each onboarding marker.
InitRoutes ==
  /\ JwtIdle /\ InitModal /\ InitWizard /\ InitChat /\ InitTabs
  /\ \E tok \in {Null} \cup IssuedTokens :
        localStorage = [k \in StorageKeys |->
                          IF k = TOKEN_KEY THEN tok
                          ELSE IF k = TENANT_KEY /\ tok # Null THEN <<"t", "1">>
                          ELSE Null]
  /\ onboardingStatus \in OnboardingStatuses
  /\ now \in {0, MaxNow}
  /\ pathname \in StartPaths
  /\ navTarget = "none"
  /\ inflight = {}
  /\ issued = 0
  /\ hrefAssignments = 0
  /\ rendered = "none"
  /\ lastGuard = [path |-> "none", token |-> Null, at |-> 0, marker |-> "none",
                  outcome |-> RenderOutlet]

\* The router renders the element App.tsx gives the current path: a screen,
\* or a <Navigate replace/> that changes the path.
RouteApp ==
  /\ rendered = "none"
  /\ navTarget = "none"
  /\ LET res == AppRoute(AppGuardedPaths, localStorage, now, onboardingStatus, pathname)
     IN  /\ lastGuard' = IF pathname \in AppGuardedPaths
                         THEN [path |-> pathname, token |-> localStorage[TOKEN_KEY],
                               at |-> now, marker |-> onboardingStatus, outcome |-> res]
                         ELSE lastGuard
         /\ IF res.kind = "redirect"
            THEN pathname' = res.to /\ UNCHANGED rendered
            ELSE rendered' = pathname /\ UNCHANGED pathname
  /\ UNCHANGED <<localStorage, onboardingStatus, now, navTarget, inflight,
                 issued, hrefAssignments>>
  /\ UNCHANGED <<jwtVars, modalVars, wizardVars, chatVars, tabVars>>

NextRoutes ==
  \/ RouteApp
  \/ \E p \in StartPaths : UserNavigate(p)

SpecRoutes == InitRoutes /\ [][NextRoutes]_vars

C30_Redirects(guarded, path) ==
  redirectsFrom(guarded, localStorage, now, onboardingStatus, path, MaxFollowed)

C30_Target(guarded, path) ==
  AppRoute(guarded, localStorage, now, onboardingStatus, path)

\* C30 (pure part): in the current session state, from every starting path
\* the redirects end at a rendered screen after at most two of them, and no
\* path is redirected to a path that redirects back to it; under the route
\* table of App.tsx and under one in which every path the guard names is a
\* guarded route.
C30_AtMostTwo ==
  \A guarded \in {AppGuardedPaths, ProtectedPaths} :
     \A p \in StartPaths :
        /\ C30_Redirects(guarded, p) <= 2
        /\ C30_Target(guarded, p).kind = "redirect" =>
              C30_Target(guarded, C30_Target(guarded, p).to) # Redirect(p)

\* C30: every redirect the router follows leaves one redirect less to
\* follow, and at most two are ever left, so it reaches a rendered screen
\* after at most two redirects, from every path in every session state.
C30_RedirectsTerminate ==
  [][/\ C30_AtMostTwo
     /\ (RouteApp /\ pathname' # pathname) =>
           /\ C30_Redirects(AppGuardedPaths, pathname) =
                 C30_Redirects(AppGuardedPaths, pathname') + 1
     /\ (RouteApp /\ pathname' = pathname) =>
           /\ rendered' = pathname
           /\ C30_Redirects(AppGuardedPaths, pathname) = 0]_vars

\* Onboarding is not completed and /chats was asked for with a valid token:
\* the guard has redirected to /setup, which no route matches, so a second
\* redirect is still to come.
C30_Witness ==
  /\ pathname = "/setup" /\ rendered = "none"
  /\ lastGuard.path = "/chats" /\ lastGuard.outcome = Redirect("/setup")
  /\ C30_Redirects(AppGuardedPaths, pathname) = 1

====
